---- MODULE Spec2Model ----
(***************************************************************************)
(* Network-robustness core of the airline-route analyser:                  *)
(*   backend/app/defense.py  (DSU, lcc_curve_static_dsu,                    *)
(*                            optimize_schneider_fast, effective-resistance *)
(*                            reinforcement)                                *)
(*   backend/app/attacks.py  (ranking functions, simulate_attack)           *)
(*   backend/app/metrics.py  (largest component, diameter)                  *)
(*   backend/app/loader.py   (the graph handed to the core)                 *)
(*                                                                         *)
(* A graph is a record [nodes |-> sequence of node ids in insertion order, *)
(* edges |-> set of two-element sets, nattr and eattr |-> the attribute    *)
(* dict of each node and edge, a set of <<key, value>> pairs]: an          *)
(* undirected simple networkx Graph as load_and_build_graph builds it (no  *)
(* self-loops, no parallel edges, lat and lon on every node, a distance_km *)
(* on every edge).  An Optional value is <<>> for None and <<x>> for x.     *)
(* Graph objects live in a heap indexed by reference, so that copying and  *)
(* aliasing are distinguishable.                                           *)
(***************************************************************************)
EXTENDS Integers, Sequences, FiniteSets, TLC

(***************************************************************************)
(* Bounds of the model.                                                    *)
(***************************************************************************)
CurveMaxNodes == 3

CurveFracDen == 2

CurveMaxLadder == 2

SwapMaxNodes == 4

LoopMaxEdges == 2

SwapMaxTrials == 2

SwapMaxPatience == 2

AttackMaxNodes == 3

AttackMaxLadder == 2

AttackMaxRuns == 2

\* direct calls of the ranking functions: nodes of the graph, and the limit k
RankMaxNodes == 3

RankMaxK == 3

ErMaxNodes == 4

ErMaxK == 3

ErMaxCandidates == 2

\* the endpoint /graph/stats: nodes of the graph
StatsMaxNodes == 4

\* the sampling loop run to its end: nodes of the graph, largest max_candidates
SampleMaxNodes == 3
SampleMaxCandidates == 2

\* AppState: nodes of the base graph
AppMaxNodes == 3

\* the endpoints: nodes of the loaded graph, and the largest k_hubs of a request
RouteMaxNodes == 3
RouteMaxHubs == 1

\* the calls made twice to compare a fallback with a regular run: nodes of the
\* graph, max_candidates
FallbackMaxNodes == 3

FallbackMaxCandidates == 1

(***************************************************************************)
(* Generic helpers.                                                        *)
(***************************************************************************)
Range(s) == {s[i] : i \in 1..Len(s)}

Max2(a, b) == IF a >= b THEN a ELSE b

Min2(a, b) == IF a <= b THEN a ELSE b

Abs(x) == IF x < 0 THEN -x ELSE x

\* all two-element subsets of S: the possible undirected edges on S
PairsOf(S) == {e \in SUBSET S : Cardinality(e) = 2}

\* the sequence 1, 2, ..., n: nodes in insertion order
Iota(n) == [i \in 1..n |-> i]

\* all orderings of the elements of the sequence s
PermsOf(s) ==
    {p \in [1..Len(s) -> Range(s)] : \A i, j \in 1..Len(s) : i # j => p[i] # p[j]}

EmptyGraph == [nodes |-> <<>>, edges |-> {}, nattr |-> <<>>, eattr |-> <<>>]

\* value of key in an attribute dict that has the key
AttrOf(d, key) == (CHOOSE kv \in d : kv[1] = key)[2]

HasKey(d, key) == \E kv \in d : kv[1] = key

\* great_circle(...).kilometers for two points on the equator: 111 km per
\* degree of longitude
GreatCircleKm(a, b) == 111 * Abs(AttrOf(a, "lon") - AttrOf(b, "lon"))

\* the attributes G.add_node(id, ..., lat=, lon=) gives airport i: the airports
\* of the model lie on the equator, 15 degrees apart
LoadedNode(i) == {<<"lat", 0>>, <<"lon", 15 * i>>}

\* the attribute dict G.add_edge(src, dst, distance_km=dist) gives a route
LoadedAttr(e) ==
    LET u == CHOOSE x \in e : TRUE
        v == CHOOSE x \in e : x # u
    IN {<<"distance_km", GreatCircleKm(LoadedNode(u), LoadedNode(v))>>}

\* every simple graph on the nodes 1..n, for n up to maxN, as the loader builds it
GraphsUpTo(maxN) ==
    UNION {{[nodes |-> Iota(n), edges |-> E,
             nattr |-> [i \in 1..n |-> LoadedNode(i)],
             eattr |-> [e \in E |-> LoadedAttr(e)]]
            : E \in SUBSET PairsOf(1..n)} : n \in 0..maxN}

\* the same graphs without any attribute, as a networkx generator builds them
BareGraphsUpTo(maxN) ==
    UNION {{[nodes |-> Iota(n), edges |-> E,
             nattr |-> [i \in 1..n |-> {}],
             eattr |-> [e \in E |-> {}]]
            : E \in SUBSET PairsOf(1..n)} : n \in 0..maxN}

\* G.adj[u]
Adj(G, u) == {v \in Range(G.nodes) : {u, v} \in G.edges}

\* G.degree(u)
Degree(G, u) == Cardinality(Adj(G, u))

(***************************************************************************)
(* Reference semantics: the largest connected component by plain search.   *)
(***************************************************************************)
RECURSIVE ReachFrom(_, _, _)
ReachFrom(V, E, seen) ==
    LET more == {v \in V \ seen : \E u \in seen : {u, v} \in E}
    IN IF more = {} THEN seen ELSE ReachFrom(V, E, seen \cup more)

\* the connected components of the graph induced on V
ComponentsOf(V, E) == {ReachFrom(V, E, {s}) : s \in V}

\* size of the largest connected component of G with the nodes in `removed` deleted
BruteLcc(G, removed) ==
    LET V == Range(G.nodes) \ removed
        sizes == {Cardinality(c) : c \in ComponentsOf(V, G.edges)}
    IN IF V = {} THEN 0 ELSE CHOOSE m \in sizes : \A x \in sizes : x <= m

\* the first k elements of a sequence, as a set
FirstK(s, k) == {s[i] : i \in 1..Min2(k, Len(s))}

(***************************************************************************)
(* class DSU                                                               *)
(***************************************************************************)
\* DSU.__init__: p = list(range(n)), sz = [1] * n
DSUInit(n) == [p |-> [i \in 0..(n - 1) |-> i], sz |-> [i \in 0..(n - 1) |-> 1]]

\* DSU.find with path halving; returns the updated parent array and the root
RECURSIVE Find(_, _)
Find(p, a) ==
    IF p[a] = a
    THEN [p |-> p, root |-> a]
    ELSE LET q == [p EXCEPT ![a] = p[p[a]]] IN Find(q, q[a])

\* a union that forgets to add the attached component's size
UnionNoSize(d, a, b) ==
    LET fa == Find(d.p, a)
        fb == Find(fa.p, b)
        pa == fa.root
        pb == fb.root
    IN IF pa = pb
       THEN [p |-> fb.p, sz |-> d.sz, ret |-> d.sz[pa]]
       ELSE LET big == IF d.sz[pa] < d.sz[pb] THEN pb ELSE pa
                small == IF d.sz[pa] < d.sz[pb] THEN pa ELSE pb
            IN [p |-> [fb.p EXCEPT ![small] = big], sz |-> d.sz, ret |-> d.sz[big]]

\* DSU.union by size; returns the updated arrays and the size of the merged set
Union(d, a, b) ==
    LET fa == Find(d.p, a)
        fb == Find(fa.p, b)
        pa == fa.root
        pb == fb.root
    IN IF pa = pb
       THEN [p |-> fb.p, sz |-> d.sz, ret |-> d.sz[pa]]
       ELSE LET big == IF d.sz[pa] < d.sz[pb] THEN pb ELSE pa
                small == IF d.sz[pa] < d.sz[pb] THEN pa ELSE pb
                sz2 == [d.sz EXCEPT ![big] = d.sz[big] + d.sz[small]]
            IN [p |-> [fb.p EXCEPT ![small] = big], sz |-> sz2, ret |-> sz2[big]]

(***************************************************************************)
(* Fractions are exact rationals [num, den]; np.rint rounds half to even.  *)
(***************************************************************************)
\* np.rint(num / den) for num >= 0, den > 0
Rint(num, den) ==
    LET q == num \div den
        r2 == 2 * (num % den)
    IN IF r2 > den THEN q + 1
       ELSE IF r2 < den THEN q
       ELSE IF q % 2 = 0 THEN q ELSE q + 1

\* np.clip(x, lo, hi)
Clip(x, lo, hi) == IF x < lo THEN lo ELSE IF x > hi THEN hi ELSE x

\* ks[i] = clip(rint(fracs[i] * n), 0, n)
KsOf(fracs, n) == [i \in 1..Len(fracs) |-> Clip(Rint(fracs[i].num * n, fracs[i].den), 0, n)]

\* idx = {u: i for i, u in enumerate(node_list)}
Idx(G, u) == (CHOOSE i \in 1..Len(G.nodes) : G.nodes[i] = u) - 1

(***************************************************************************)
(* lcc_curve_static_dsu: the add-back pass.  A pass state is the record    *)
(* [active, dsu, max_cc, lcc_after_k] of the function's locals.            *)
(***************************************************************************)
\* the locals before the loop: nothing active, lcc_after_k all zero
CurveStart(n) ==
    [active |-> [i \in 0..(n - 1) |-> FALSE],
     dsu |-> DSUInit(n),
     max_cc |-> 0,
     lcc_after_k |-> [k \in 0..n |-> 0]]

\* active[iu] = True
Activate(st, G, u) == [st EXCEPT !.active[Idx(G, u)] = TRUE]

\* a loop body that unions with every neighbour, active or not
UnionNeighborAlways(st, G, u, v) ==
    LET r == Union(st.dsu, Idx(G, u), Idx(G, v))
    IN [st EXCEPT !.dsu = [p |-> r.p, sz |-> r.sz],
                  !.max_cc = Max2(st.max_cc, r.ret)]

\* one iteration of `for v in G.adj[u]`
UnionNeighbor(st, G, u, v) ==
    IF st.active[Idx(G, v)]
    THEN LET r == Union(st.dsu, Idx(G, u), Idx(G, v))
         IN [st EXCEPT !.dsu = [p |-> r.p, sz |-> r.sz],
                       !.max_cc = Max2(st.max_cc, r.ret)]
    ELSE st

\* max_cc = max(max_cc, 1); lcc_after_k[n - t] = max_cc
RecordK(st, n, t) ==
    LET m == Max2(st.max_cc, 1)
    IN [st EXCEPT !.max_cc = m, !.lcc_after_k[n - t] = m]

\* lcc_after_k[ks].astype(float) / float(n)
CurveSamples(lcc_after_k, fracs, n) ==
    LET ks == KsOf(fracs, n)
    IN [i \in 1..Len(fracs) |-> [num |-> lcc_after_k[ks[i]], den |-> n]]

\* np.zeros_like(fracs)
ZerosLike(fracs) == [i \in 1..Len(fracs) |-> [num |-> 0, den |-> 1]]

\* the whole inner loop for u, neighbours taken in increasing node id
RECURSIVE UnionAll(_, _, _, _)
UnionAll(st, G, u, todo) ==
    IF todo = {} THEN st
    ELSE LET v == CHOOSE x \in todo : \A y \in todo : x <= y
         IN UnionAll(UnionNeighbor(st, G, u, v), G, u, todo \ {v})

\* the outer loop from iteration t on; rev[t] is added back in iteration t
RECURSIVE AddBackFrom(_, _, _, _)
AddBackFrom(st, G, rev, t) ==
    IF t > Len(rev) THEN st
    ELSE LET u == rev[t]
             s1 == UnionAll(Activate(st, G, u), G, u, Adj(G, u))
         IN AddBackFrom(RecordK(s1, Len(G.nodes), t), G, rev, t + 1)

\* list(reversed(order))
Reversed(s) == [i \in 1..Len(s) |-> s[Len(s) + 1 - i]]

\* lcc_curve_static_dsu(G, fracs, order)
LccCurveStaticDsu(G, fracs, order) ==
    LET n == Len(G.nodes)
    IN IF n = 0 THEN ZerosLike(fracs)
       ELSE CurveSamples(AddBackFrom(CurveStart(n), G, Reversed(order), 1).lcc_after_k,
                         fracs, n)

(***************************************************************************)
(* networkx operations on graph values and on the heap of graph objects.   *)
(***************************************************************************)
\* G.has_edge(u, v)
HasEdge(G, u, v) == {u, v} \in G.edges

\* G.number_of_edges()
NumberOfEdges(G) == Cardinality(G.edges)

\* G.remove_edge(u, v): the edge goes, and its attribute dict with it
RemoveEdge(G, u, v) ==
    [nodes |-> G.nodes,
     edges |-> G.edges \ {{u, v}},
     nattr |-> G.nattr,
     eattr |-> [e \in G.edges \ {{u, v}} |-> G.eattr[e]]]

\* dict.update: the pairs of meta replace the pairs of d with the same key
DictUpdate(d, meta) == {kv \in d : \A m \in meta : m[1] # kv[1]} \cup meta

\* G.add_edge(u, v, **meta): missing endpoints are added as nodes; a new edge
\* starts from an empty attribute dict, an existing one keeps its dict
AddEdgeWith(G, u, v, meta) ==
    LET n1 == IF u \in Range(G.nodes) THEN G.nodes ELSE Append(G.nodes, u)
        n2 == IF v \in Range(n1) THEN n1 ELSE Append(n1, v)
        old == IF {u, v} \in G.edges THEN G.eattr[{u, v}] ELSE {}
    IN [nodes |-> n2,
        edges |-> G.edges \cup {{u, v}},
        nattr |-> [x \in Range(n2) |-> IF x \in Range(G.nodes) THEN G.nattr[x] ELSE {}],
        eattr |-> [e \in G.edges \cup {{u, v}} |->
                      IF e = {u, v} THEN DictUpdate(old, meta) ELSE G.eattr[e]]]

\* G.add_edge(u, v)
AddEdge(G, u, v) == AddEdgeWith(G, u, v, {})

\* position of node u in the insertion order of G
Pos(G, u) == CHOOSE i \in 1..Len(G.nodes) : G.nodes[i] = u

\* list(G.edges()): each edge once, as the tuple that starts at its earlier-inserted end
EdgeList(G) ==
    {<<u, v>> \in Range(G.nodes) \X Range(G.nodes) :
        {u, v} \in G.edges /\ Pos(G, u) < Pos(G, v)}

\* G.copy() that hands back the same object
GraphAlias(h, ref) == [heap |-> h, ref |-> ref]

\* G.copy(): a new object with the same nodes and edges
GraphCopy(h, ref) == [heap |-> Append(h, h[ref]), ref |-> Len(h) + 1]

(***************************************************************************)
(* Robustness index and static order of the edge-swap optimizer.           *)
(***************************************************************************)
\* np.linspace(0, 0.3, 21): the fractions 3 i / 200, i = 0..20
DefaultFracs == [i \in 1..21 |-> [num |-> 3 * (i - 1), den |-> 200]]

RECURSIVE TrapzSum(_, _, _)
TrapzSum(fracs, curve, i) ==
    IF i >= Len(fracs) THEN 0
    ELSE (fracs[i + 1].num - fracs[i].num) * (curve[i].num + curve[i + 1].num)
         + TrapzSum(fracs, curve, i + 1)

\* R_index: np.trapz(curve, fracs), as the exact rational num / den
\* (all fractions of a ladder share one denominator, all samples of a curve too)
RIndex(fracs, curve) ==
    IF Len(fracs) = 0 THEN [num |-> 0, den |-> 1]
    ELSE [num |-> TrapzSum(fracs, curve, 1), den |-> 2 * fracs[1].den * curve[1].den]

\* robustness_R_static_fast
RobustnessRStaticFast(G, fracs, order) == RIndex(fracs, LccCurveStaticDsu(G, fracs, order))

\* str(a) < str(b); node ids of the model are single digits, where it is a < b
StrLess(a, b) == a < b

\* sort key (-degree, str(node)): a is placed before b
SortsBefore(G, a, b) ==
    \/ Degree(G, a) > Degree(G, b)
    \/ Degree(G, a) = Degree(G, b) /\ StrLess(a, b)

\* _static_order_by_degree
StaticOrderByDegree(G) ==
    LET V == Range(G.nodes)
        rank(u) == Cardinality({w \in V : SortsBefore(G, w, u)})
    IN [i \in 1..Len(G.nodes) |-> CHOOSE u \in V : rank(u) = i - 1]

\* deg = dict(Gr.degree())
DegreeDict(G) == [u \in Range(G.nodes) |-> Degree(G, u)]

\* score_degree_mixing(e1, e2, ne1, ne2)
ScoreDegreeMixing(dg, a1, a2, n1, n2) ==
    LET old == Abs(dg[a1[1]] - dg[a1[2]]) + Abs(dg[a2[1]] - dg[a2[2]])
        new == Abs(dg[n1[1]] - dg[n1[2]]) + Abs(dg[n2[1]] - dg[n2[2]])
    IN new - old

\* the two recombinations of the for loop, i = 1, 2
Variant(a1, a2, i) ==
    IF i = 1 THEN [ne1 |-> <<a1[1], a2[1]>>, ne2 |-> <<a1[2], a2[2]>>]
    ELSE [ne1 |-> <<a1[1], a2[2]>>, ne2 |-> <<a1[2], a2[1]>>]

\* a validity test without the has_edge check
VariantValidNoDup(G, dg, pf, a1, a2, n1, n2) ==
    /\ ~(n1[1] = n1[2] \/ n2[1] = n2[2])
    /\ ~({n1[1], n1[2]} = {n2[1], n2[2]})
    /\ pf => ScoreDegreeMixing(dg, a1, a2, n1, n2) < 0

\* the recombination passes every `continue` test of the for loop
VariantValid(G, dg, pf, a1, a2, n1, n2) ==
    /\ ~(n1[1] = n1[2] \/ n2[1] = n2[2])
    /\ ~(HasEdge(G, n1[1], n1[2]) \/ HasEdge(G, n2[1], n2[2]))
    /\ ~({n1[1], n1[2]} = {n2[1], n2[2]})
    /\ pf => ScoreDegreeMixing(dg, a1, a2, n1, n2) < 0

\* a swap that leaves the second old edge in place
ApplySwapKeepE2(G, a1, a2, n1, n2) ==
    AddEdge(AddEdge(RemoveEdge(G, a1[1], a1[2]), n1[1], n1[2]), n2[1], n2[2])

\* remove_edge(*e1); remove_edge(*e2); add_edge(*ne1); add_edge(*ne2)
ApplySwap(G, a1, a2, n1, n2) ==
    AddEdge(AddEdge(RemoveEdge(RemoveEdge(G, a1[1], a1[2]), a2[1], a2[2]),
                    n1[1], n1[2]), n2[1], n2[2])

\* an acceptance test that also takes a swap reaching exactly R_best + min_delta_R
\* a test that accepts whatever the trial found
ExceedsAlways(Rnew, Rbest, delta) == TRUE

ExceedsOrEqual(Rnew, Rbest, delta) ==
    (Rnew.num - Rbest.num) * delta.den >= delta.num * Rnew.den

\* R_new > R_best + min_delta_R, for two R values over the same denominator
Exceeds(Rnew, Rbest, delta) ==
    (Rnew.num - Rbest.num) * delta.den > delta.num * Rnew.den

\* R_new > best_local[0]
RGreater(a, b) == a.num * b.den > b.num * a.den

(***************************************************************************)
(* metrics.py, and the node operations of networkx the attacks use.        *)
(***************************************************************************)
\* the elements of the sequence s that are in V, in the order of s
RECURSIVE Keep(_, _)
Keep(s, V) ==
    IF s = <<>> THEN <<>>
    ELSE IF Head(s) \in V THEN <<Head(s)>> \o Keep(Tail(s), V)
    ELSE Keep(Tail(s), V)

\* G.subgraph(V): the nodes of V, the edges between them, and their attributes
Subgraph(G, V) ==
    LET E == {e \in G.edges : e \subseteq V}
    IN [nodes |-> Keep(G.nodes, V),
        edges |-> E,
        nattr |-> [x \in Range(G.nodes) \cap V |-> G.nattr[x]],
        eattr |-> [e \in E |-> G.eattr[e]]]

\* G.remove_node(u): the node goes with its incident edges
RemoveNode(G, u) == Subgraph(G, Range(G.nodes) \ {u})

\* G.copy() in the place of G.subgraph(V).copy()
WholeCopy(h, ref, V) == [heap |-> Append(h, h[ref]), ref |-> Len(h) + 1]

\* G.subgraph(V).copy(): a new object holding the induced subgraph
SubgraphCopy(h, ref, V) == [heap |-> Append(h, Subgraph(h[ref], V)), ref |-> Len(h) + 1]

\* _largest_component_nodes: max(nx.connected_components(G), key=len) is the
\* first of the largest components, components being listed by their first
\* node in insertion order
LargestComponentNodes(G) ==
    IF Len(G.nodes) = 0 THEN {}
    ELSE LET V == Range(G.nodes)
             comp(i) == ReachFrom(V, G.edges, {G.nodes[i]})
             best == CHOOSE i \in 1..Len(G.nodes) :
                        /\ \A j \in 1..Len(G.nodes) :
                              Cardinality(comp(j)) <= Cardinality(comp(i))
                        /\ \A j \in 1..(i - 1) :
                              Cardinality(comp(j)) < Cardinality(comp(i))
         IN comp(best)

\* get_lcc
GetLcc(G) == LargestComponentNodes(G)

\* the largest distance from the nodes of `seen`, reached after d steps, inside V
RECURSIVE Eccentricity(_, _, _, _)
\* the number of nodes of the largest component, in the place of its diameter
DiameterAsSize(G) == Cardinality(LargestComponentNodes(G))

Eccentricity(V, E, seen, d) ==
    LET more == {v \in V \ seen : \E u \in seen : {u, v} \in E}
    IN IF more = {} THEN d ELSE Eccentricity(V, E, seen \cup more, d + 1)

\* diameter: nx.diameter of the largest component, 0 when it has fewer than 2 nodes
Diameter(G) ==
    LET lccNodes == LargestComponentNodes(G)
        ecc == {Eccentricity(lccNodes, G.edges, {s}, 0) : s \in lccNodes}
    IN IF Cardinality(lccNodes) < 2 THEN 0 ELSE CHOOSE m \in ecc : \A x \in ecc : x <= m

\* components_count without the guard for the empty graph, counting at least one
ComponentsCountAtLeastOne(G) ==
    Max2(1, Cardinality(ComponentsOf(Range(G.nodes), G.edges)))

\* components_count: 0 on the empty graph, else nx.number_connected_components
ComponentsCount(G) ==
    IF Len(G.nodes) = 0 THEN 0 ELSE Cardinality(ComponentsOf(Range(G.nodes), G.edges))

\* lcc_size: 0.0 on the empty graph, else |LCC| / |V|
LccSize(G) ==
    IF Len(G.nodes) = 0
    THEN [num |-> 0, den |-> 1]
    ELSE [num |-> Cardinality(LargestComponentNodes(G)), den |-> Len(G.nodes)]

(***************************************************************************)
(* state.py: the overlay of removed nodes and edges.                       *)
(***************************************************************************)
\* the pair as given, not sorted
UnsortedPair(a, b) == <<a, b>>

\* tuple(sorted([a, b]))
SortedPair(a, b) == IF a <= b THEN <<a, b>> ELSE <<b, a>>

\* G.remove_nodes_from(S): the nodes of S that G has go with their edges
RemoveNodesFrom(G, S) == Subgraph(G, Range(G.nodes) \ S)

\* G.remove_edges_from(T): the tuples of T that are edges of G go
RemoveEdgesFrom(G, T) ==
    LET E == G.edges \ {{tp[1], tp[2]} : tp \in T}
    IN [nodes |-> G.nodes,
        edges |-> E,
        nattr |-> G.nattr,
        eattr |-> [e \in E |-> G.eattr[e]]]

\* the tuples remove_node and restore_node build for node_id: one per neighbour
IncidentTuples(G, node_id) == {SortedPair(node_id, nb) : nb \in Adj(G, node_id)}

\* aspl: disabled, always 0.0
Aspl(G) == 0

\* get_stats (the graphs are undirected)
GetStats(G) ==
    [directed |-> FALSE,
     nodes |-> Len(G.nodes),
     edges |-> NumberOfEdges(G),
     lcc_norm |-> LccSize(G),
     diameter |-> Diameter(G),
     aspl |-> Aspl(G),
     components |-> ComponentsCount(G)]

(***************************************************************************)
(* attacks.py: the choice of the next node to remove.                      *)
(***************************************************************************)
\* max(scores.items(), key=lambda x: x[1])[0]: the first node, in insertion
\* order, of maximal score
FirstMax(G, scores) ==
    LET n == Len(G.nodes)
        best == CHOOSE i \in 1..n :
                   /\ \A j \in 1..n : scores[G.nodes[j]] <= scores[G.nodes[i]]
                   /\ \A j \in 1..(i - 1) : scores[G.nodes[j]] < scores[G.nodes[i]]
    IN G.nodes[best]

\* number of edges on a shortest path from the nodes of `seen` to b, -1 if none
RECURSIVE DistFrom(_, _, _, _, _)
DistFrom(V, E, seen, d, b) ==
    IF b \in seen THEN d
    ELSE LET more == {v \in V \ seen : \E u \in seen : {u, v} \in E}
         IN IF more = {} THEN -1 ELSE DistFrom(V, E, seen \cup more, d + 1, b)

Dist(G, a, b) == DistFrom(Range(G.nodes), G.edges, {a}, 0, b)

RECURSIVE SumOver(_, _)
SumOver(f, S) ==
    IF S = {} THEN 0
    ELSE LET x == CHOOSE y \in S : TRUE IN f[x] + SumOver(f, S \ {x})

RECURSIVE ProductOver(_, _)
ProductOver(f, S) ==
    IF S = {} THEN 1
    ELSE LET x == CHOOSE y \in S : TRUE IN f[x] * ProductOver(f, S \ {x})

\* number of shortest paths from a to b (0 when b is not reachable)
RECURSIVE Sigma(_, _, _)
Sigma(G, a, b) ==
    IF a = b THEN 1
    ELSE LET d == Dist(G, a, b)
             prev == {u \in Adj(G, b) : Dist(G, a, u) = d - 1}
         IN SumOver([u \in prev |-> Sigma(G, a, u)], prev)

\* nx.betweenness_centrality(G): for each node the sum, over the connected
\* pairs {a, b} not containing it, of the share of shortest a-b paths through
\* it; all shares are put over the common denominator `den`, and the positive
\* normalisation factor, the same for every node, is left out
BetweennessCentrality(G) ==
    LET V == Range(G.nodes)
        joined == {p \in PairsOf(V) :
                      LET a == CHOOSE x \in p : TRUE
                          b == CHOOSE x \in p : x # a
                      IN Dist(G, a, b) > 0}
        lo(p) == CHOOSE x \in p : \A y \in p : x <= y
        hi(p) == CHOOSE x \in p : \A y \in p : y <= x
        paths == [p \in joined |-> Sigma(G, lo(p), hi(p))]
        den == ProductOver(paths, joined)
        through(v, p) ==
            IF /\ v \notin p
               /\ Dist(G, lo(p), v) > 0
               /\ Dist(G, lo(p), v) + Dist(G, v, hi(p)) = Dist(G, lo(p), hi(p))
            THEN Sigma(G, lo(p), v) * Sigma(G, v, hi(p)) * (den \div paths[p])
            ELSE 0
    IN [v \in V |-> SumOver([p \in joined |-> through(v, p)], joined)]

\* the nodes of maximal betweenness: max(betweenness.items(), ...) returns the
\* first of them when their floating-point sums are equal, and whichever sum
\* came out largest when rounding separates them
MaxBetweenness(G) ==
    LET bc == BetweennessCentrality(G)
    IN {v \in Range(G.nodes) : \A w \in Range(G.nodes) : bc[w] <= bc[v]}

\* run_seed of a multi-run with every run left unseeded
RunSeedNone(seed, run) == <<>>

\* run_seed = seed + run if seed is not None else None
RunSeed(seed, run) == IF seed # <<>> THEN <<seed[1] + run>> ELSE <<>>

\* the generator after it produced `perm` for `key`
Drawn(gen, key, perm) ==
    [x \in DOMAIN gen \cup {key} |-> IF x = key THEN perm ELSE gen[x]]

\* random_attack(G, k, seed) on the node list of G.  np.random.seed(seed) followed
\* by np.random.choice(nodes, size, replace=False) is a function of the seed and
\* the list, which the generator `gen` holds for the pairs it has been asked;
\* without a seed the generator goes on from wherever it is: any ordering.  The
\* result is the set of possible pairs of returned list and generator.
RandomAttack(nodes, k, seed, gen) ==
    LET size == Min2(k, Len(nodes))
        key == <<seed[1], nodes>>
    IN IF nodes = <<>>
       THEN {[ret |-> <<>>, mt |-> gen]}
       ELSE IF seed = <<>>
       THEN {[ret |-> SubSeq(perm, 1, size), mt |-> gen] : perm \in PermsOf(nodes)}
       ELSE IF key \in DOMAIN gen
       THEN {[ret |-> SubSeq(gen[key], 1, size), mt |-> gen]}
       ELSE {[ret |-> SubSeq(perm, 1, size), mt |-> Drawn(gen, key, perm)] :
                 perm \in PermsOf(nodes)}

(***************************************************************************)
(* attacks.py: simulate_attack.                                            *)
(***************************************************************************)
\* int(x) for the rational x = num / den: truncation towards zero
IntOf(num, den) == IF num >= 0 THEN num \div den ELSE -((-num) \div den)

\* target_removed = int(fraction * original_size)
TargetRemoved(fraction, original_size) ==
    IntOf(fraction.num * original_size, fraction.den)

\* [round(i * 0.05, 2) for i in range(11)]: the fractions i / 20, i = 0..10
DefaultLadder == [i \in 1..11 |-> [num |-> i - 1, den |-> 20]]

\* the empty curves
EmptyResults == [fraction_removed |-> <<>>, relative_lcc_size |-> <<>>, diameter |-> <<>>]

\* an append that skips a fraction equal to the one before it
AppendResultsOnce(res, fraction, lcc, diam) ==
    IF res.fraction_removed # <<>>
       /\ res.fraction_removed[Len(res.fraction_removed)] = fraction
    THEN res
    ELSE [fraction_removed |-> Append(res.fraction_removed, fraction),
          relative_lcc_size |-> Append(res.relative_lcc_size, lcc),
          diameter |-> Append(res.diameter, diam)]

\* results[...].append(...) for the three curves
AppendResults(res, fraction, lcc, diam) ==
    [fraction_removed |-> Append(res.fraction_removed, fraction),
     relative_lcc_size |-> Append(res.relative_lcc_size, lcc),
     diameter |-> Append(res.diameter, diam)]

RECURSIVE SumNum(_)
SumNum(s) == IF s = <<>> THEN 0 ELSE Head(s).num + SumNum(Tail(s))

\* float(np.mean(samples)) for samples over one denominator
Mean(samples) == [num |-> SumNum(samples), den |-> samples[1].den * Len(samples)]

\* the averaging loop over fractions[i..]
RECURSIVE MeanResults(_, _, _, _, _)
MeanResults(res, ladder, lccs, diams, i) ==
    IF i > Len(ladder) THEN res
    ELSE MeanResults(AppendResults(res, ladder[i], Mean(lccs[ladder[i]]),
                                   Mean(diams[ladder[i]])),
                     ladder, lccs, diams, i + 1)

(***************************************************************************)
(* defense.py: reinforcement by effective resistance.                      *)
(***************************************************************************)
\* max_tries = max_candidates * 50
MaxTriesFactor == 50

\* max_distance_km: Optional[float] = 3000.0
DefaultMaxDistanceKm == 3000

\* geo_dist_km: the distance when both nodes carry lat and lon, None otherwise
GeoDistKm(G, u, v) ==
    IF /\ HasKey(G.nattr[u], "lat") /\ HasKey(G.nattr[u], "lon")
       /\ HasKey(G.nattr[v], "lat") /\ HasKey(G.nattr[v], "lon")
    THEN <<GreatCircleKm(G.nattr[u], G.nattr[v])>>
    ELSE <<>>

\* a cap that rejects nothing
TooFarNever(cap, d) == FALSE

\* max_distance_km is not None and d is not None and d > max_distance_km
TooFar(cap, d) == cap # <<>> /\ d # <<>> /\ d[1] > cap[1]

\* the spanning trees of the connected graph H
SpanningTrees(H) ==
    LET V == Range(H.nodes)
    IN {S \in SUBSET H.edges :
           /\ Cardinality(S) = Cardinality(V) - 1
           /\ ReachFrom(V, S, {H.nodes[1]}) = V}

\* the spanning forests of H made of two trees, one holding u and the other v
SeparatingForests(H, u, v) ==
    LET V == Range(H.nodes)
    IN {S \in SUBSET H.edges :
           /\ Cardinality(S) = Cardinality(V) - 2
           /\ v \notin ReachFrom(V, S, {u})
           /\ ReachFrom(V, S, {u}) \cup ReachFrom(V, S, {v}) = V}

\* Kirchhoff's theorem, for reference: the resistance between u and v is the
\* number of two-tree forests separating u from v over the number of spanning
\* trees
KirchhoffResistance(H, u, v) ==
    [num |-> Cardinality(SeparatingForests(H, u, v)),
     den |-> Cardinality(SpanningTrees(H))]

\* L of _build_grounded_laplacian_lu for node_list nl: -1 for an edge between
\* two different nodes, the degree on the diagonal
Laplacian(H, nl) ==
    [i \in 1..Len(nl) |->
        [j \in 1..Len(nl) |->
            IF i = j
            THEN Cardinality({w \in 1..Len(nl) : w # i /\ {nl[i], nl[w]} \in H.edges})
            ELSE IF {nl[i], nl[j]} \in H.edges THEN -1 ELSE 0]]

\* g = n - 1: the last node is the ground (positions count from 1 here)
Ground(nl) == Len(nl)

\* red(i): the index of the full row i among the rows left without row g
Red(i, g) == IF i < g THEN i ELSE i - 1

\* Lg = L[mask][:, mask]: L without row g and column g
Grounded(L, g) ==
    LET full(i) == IF i < g THEN i ELSE i + 1
    IN [i \in 1..(Len(L) - 1) |-> [j \in 1..(Len(L) - 1) |-> L[full(i)][full(j)]]]

\* the determinant of the m x m integer matrix M
Det(M, m) ==
    LET perms == {p \in [1..m -> 1..m] : \A i, j \in 1..m : i # j => p[i] # p[j]}
        inversions(p) == Cardinality({ij \in (1..m) \X (1..m) :
                                         ij[1] < ij[2] /\ p[ij[1]] > p[ij[2]]})
        term(p) == (IF inversions(p) % 2 = 0 THEN 1 ELSE -1)
                   * ProductOver([i \in 1..m |-> M[i][p[i]]], 1..m)
    IN SumOver([p \in perms |-> term(p)], perms)

\* b of effective_resistance: +1 at red(iu) unless iu is the ground, -1 at
\* red(iv) unless iv is the ground
Rhs(m, g, iu, iv) ==
    [i \in 1..m |->
        (IF iu # g /\ Red(iu, g) = i THEN 1 ELSE 0)
        - (IF iv # g /\ Red(iv, g) = i THEN 1 ELSE 0)]

\* lu.solve(b): the solution x of Lg x = b, each x[i] as its numerator over
\* det(Lg) (Cramer's rule)
LuSolve(Lg, b) ==
    LET m == Len(Lg)
    IN [i \in 1..m |->
           Det([r \in 1..m |-> [c \in 1..m |-> IF c = i THEN b[r] ELSE Lg[r][c]]], m)]

\* x_full that reads the reduced vector for the ground too
XFullNoGround(x, i, g) == x[Red(i, g)]

\* x_full(i)
XFull(x, i, g) == IF i = g THEN 0 ELSE x[Red(i, g)]

\* effective_resistance(lu, idx, g, u, v) on the factorization of the grounded
\* Laplacian of H with node_list = list(H.nodes()): x_full(iu) - x_full(iv),
\* an exact fraction over det(Lg)
EffectiveResistance(H, u, v) ==
    LET nl == H.nodes
        g == Ground(nl)
        Lg == Grounded(Laplacian(H, nl), g)
        iu == CHOOSE i \in 1..Len(nl) : nl[i] = u
        iv == CHOOSE i \in 1..Len(nl) : nl[i] = v
        x == LuSolve(Lg, Rhs(Len(nl) - 1, g, iu, iv))
    IN [num |-> XFull(x, iu, g) - XFull(x, iv, g),
        den |-> Det(Lg, Len(nl) - 1)]

\* scored, for the candidates in their sampled order
ScoreAll(H, cands) ==
    [i \in 1..Len(cands) |->
        [reff |-> EffectiveResistance(H, cands[i].u, cands[i].v),
         u |-> cands[i].u, v |-> cands[i].v, d |-> cands[i].d]]

\* scored left in any order
AnyOrder(s) == PermsOf(s)

\* scored.sort(reverse=True, key=lambda x: x[0]): the orderings of s by
\* non-increasing resistance; where two resistances are equal the sort keeps
\* the sampled order if the two floating-point values are equal and follows
\* their rounding otherwise
SortedByReff(s) ==
    {p \in PermsOf(s) :
        \A i \in 1..(Len(p) - 1) :
            p[i].reff.num * p[i + 1].reff.den >= p[i + 1].reff.num * p[i].reff.den}

\* a slice that takes 0 for "no limit"
FirstOfZeroIsAll(s, n) == IF n = 0 THEN s ELSE SubSeq(s, 1, Min2(n, Len(s)))

\* s[:n] for n >= 0
FirstOf(s, n) == SubSeq(s, 1, Min2(n, Len(s)))

\* meta = {"defense": "TER_like", "Reff": float(reff)}, with distance_km if d is known
TerMeta(entry) ==
    {<<"defense", "TER_like">>, <<"Reff", entry.reff>>}
    \cup (IF entry.d # <<>> THEN {<<"distance_km", entry.d[1]>>} ELSE {})

\* for reff, u, v, d in top: Hr.add_edge(u, v, **meta)
RECURSIVE AddTop(_, _, _)
AddTop(G, top, i) ==
    IF i > Len(top) THEN G
    ELSE AddTop(AddEdgeWith(G, top[i].u, top[i].v, TerMeta(top[i])), top, i + 1)

\* the list `added` of the factorization path
AddedTop(top) == [i \in 1..Len(top) |-> <<top[i].u, top[i].v, TerMeta(top[i])>>]

\* sorted(degrees.items(), key=lambda x: x[1], reverse=True): by degree, the
\* largest first, nodes of equal degree in insertion order
HubsByDegree(G) ==
    LET V == Range(G.nodes)
        before(a, b) ==
            \/ Degree(G, a) > Degree(G, b)
            \/ Degree(G, a) = Degree(G, b) /\ Pos(G, a) < Pos(G, b)
        place(u) == Cardinality({w \in V : before(w, u)})
    IN [i \in 1..Len(G.nodes) |-> CHOOSE u \in V : place(u) = i - 1]

\* the pairs (src, dst) of `for i, src in enumerate(hub_ids): for dst in
\* hub_ids[i+1:]`, in loop order, starting at positions i, j
RECURSIVE HubPairs(_, _, _)
HubPairs(hub_ids, i, j) ==
    IF i > Len(hub_ids) THEN <<>>
    ELSE IF j > Len(hub_ids) THEN HubPairs(hub_ids, i + 1, i + 2)
    ELSE <<<<hub_ids[i], hub_ids[j]>>>> \o HubPairs(hub_ids, i, j + 1)

\* the body of the two loops of reinforce_graph_simple from pair p on
RECURSIVE BackupEdges(_, _, _, _, _, _, _)
BackupEdges(G_reinforced, G, pairs, p, added_count, n, cap) ==
    IF p > Len(pairs) \/ added_count >= n THEN G_reinforced
    ELSE LET src == pairs[p][1]
             dst == pairs[p][2]
             dist == GeoDistKm(G, src, dst)
         IN IF \/ {src, dst} \in G.edges
               \/ dist = <<>>
               \/ cap = <<>>
               \/ dist[1] > cap[1]
            THEN BackupEdges(G_reinforced, G, pairs, p + 1, added_count, n, cap)
            ELSE BackupEdges(AddEdgeWith(G_reinforced, src, dst,
                                         {<<"distance_km", dist[1]>>, <<"backup", TRUE>>}),
                             G, pairs, p + 1, added_count + 1, n, cap)

\* reinforce_graph_simple(G, k, max_distance_km), as the value of the graph it
\* returns; comparing a distance with None raises inside the try, which skips
\* the pair
ReinforceGraphSimple(G, n, cap) ==
    IF Len(G.nodes) < 2 THEN G
    ELSE BackupEdges(G, G, HubPairs(FirstOf(HubsByDegree(G), n), 1, 2), 1, 0, n, cap)

\* [(u, v, {...}) for u, v in H_reinforced.edges() if not H.has_edge(u, v)], as a set
SimpleAdded(G_reinforced, G) ==
    {<<e[1], e[2], {<<"defense", "simple">>, <<"backup", TRUE>>}>> :
        e \in {x \in EdgeList(G_reinforced) : ~HasEdge(G, x[1], x[2])}}

\* the orderings of a finite set
SeqsOf(S) ==
    {p \in [1..Cardinality(S) -> S] : \A i, j \in 1..Cardinality(S) : i # j => p[i] # p[j]}

(***************************************************************************)
(* State.                                                                  *)
(***************************************************************************)
VARIABLES
    \* lcc_curve_static_dsu, run one statement at a time
    cG,        \* the graph G
    cOrder,    \* the removal order
    cFracs,    \* the fraction ladder fracs (<<>> until a return statement reads it)
    cst,       \* the locals active, dsu, max_cc, lcc_after_k
    ct,        \* the loop counter t (0 before the first iteration)
    pending,   \* the neighbours of rev[t] the inner loop has not visited yet
    cret,      \* the returned curve
    cpc,       \* "idle", "outer", "inner", "done"
    \* the graph objects: heap[ref] is the graph a reference denotes
    heap,
    \* history: the caller's graph as it was at the call (heap[1] at the call)
    G_in,
    \* history of a caller that makes the same call twice
    calls,         \* the number of calls that have returned before this one
    earlier,       \* <<>>, or <<what the earlier call returned>>
    \* optimize_schneider_fast
    G,             \* the caller's graph (a reference)
    max_trials,
    patience,
    min_delta_R,
    prefilter,
    fracs,
    Gr,            \* the working graph (a reference; 0 before it exists)
    order,
    deg,
    R_best,
    edges,
    accepted,
    no_improve,
    r_evals,
    t,             \* the loop variable: <<>> while unbound, <<value>> once assigned
    e1,
    e2,
    vi,            \* which recombination the inner for loop is at (1, 2)
    best_local,    \* <<>> for None, else <<[R, ne1, ne2]>>
    info,          \* the returned info dict (<<>> until returned)
    pc,            \* "idle", "start", "first", "loop", "variant", "applied", "decide", "info",
                   \* "done", "raised"; "wrapper" in reinforce_graph_schneider
    \* history of the run, not read by the program
    sampled,       \* number of iterations that reached rng.sample
    exit_by,       \* how the loop ended: "", "exhausted", "patience", "edges"
    evals,         \* the recombinations evaluated in the current trial, with their R
    \* simulate_attack and the ranking function it calls
    aG,              \* the caller's graph G (a reference)
    strategy,
    fractions,       \* <<>> for None, <<ladder>> for a list
    n_runs,
    seed,            \* <<>> for None
    mt,              \* numpy's global generator: the orderings np.random.seed(s)
                     \* followed by np.random.choice has produced, by s and list
    original_size,
    results,
    all_lcc,         \* the dicts of the multi-run branch, keyed by fraction
    all_diameter,
    run,
    G_copy,          \* the working graph (a reference; 0 before it exists)
    all_nodes,
    local_nodes,
    current_removed,
    fi,              \* position of the loop `for fraction in fractions` (1-based)
    rank,            \* the frame of the ranking function: its arguments G (a
                     \* reference), k and adaptive, its own G_copy (a reference),
                     \* removed, the iterations to do and done; direct: called by
                     \* the user of the module, not by simulate_attack; history:
                     \* fallback, an iteration ranked by degree after nx.pagerank
                     \* raised
    apc,             \* "idle", "start", "select", "rank", "ladder", "runs", "mladder",
                     \* "done"; of a direct call of a ranking function: "call",
                     \* "rank", "ranked"
    removed_log,     \* history: [fraction, removed] at each sampling of the metrics
    \* add_edges_by_effective_resistance
    eG,              \* the caller's graph G (a reference)
    k,
    max_candidates,
    max_distance_km, \* <<>> for None
    lcc,
    H,               \* the component subgraph (a reference; 0 before it exists)
    node_list,
    lu,              \* <<>> before the factorization, <<"lu">> after
    candidates,      \* the locals of sample_candidate_edges
    existing,
    tries,
    cand,
    scored,
    Hr,              \* the reinforced graph (a reference; 0 before it exists)
    added,
    eret,            \* the returned pair (<<>> until the return)
    epc,             \* "idle", "start", "factor", "sample", "score", "add", "done"
    fallback,        \* history: the fallback branch was taken
    \* the endpoint /graph/stats
    sG,              \* app_state.graph, <<>> for None
    stats,           \* the dict get_stats returned (<<>> until it returns)
    spc,             \* "idle", "request", "done", "rejected"
    \* AppState
    graph,           \* the base graph (a reference), 0 for None
    removed_nodes,
    removed_edges,   \* a set of tuples
    app_ret,         \* what the last method called returned (<<>> before any call)
    active,          \* the graph the last get_active_graph returned (a reference),
                     \* 0 before any call
    app_op,          \* history: <<>>, or <<the last method called, its arguments,
                     \* and for remove_node the two removed sets before it>>
    explicit,        \* history: the edges remove_edge removed, until restore_edge
                     \* or reset is called for them
    \* routes.py: the endpoints that call simulate_attack
    req,             \* the request: endpoint and query or body parameters
    rpc,             \* where the handler is: "request", "rejected" (HTTPException
                     \* 400), "type_error" (the call raised TypeError), "ter",
                     \* "attack_original", "attack_reinforced", "response"
    G_lcc,           \* the handler's local G_lcc (0 before it is bound)
    G_reinforced,    \* the handler's local G_reinforced (0 before it is bound)
    passed           \* history: the strategy names of the calls of simulate_attack

curveVars == <<cG, cOrder, cFracs, cst, ct, pending, cret, cpc>>

swapInputs == <<G, max_trials, patience, min_delta_R, prefilter, fracs>>

swapLocals == <<Gr, order, deg, R_best, edges, accepted, no_improve, r_evals, t, e1, e2,
                vi, best_local, info, pc, sampled, exit_by, evals>>

swapVars == <<swapInputs, swapLocals>>

attackVars == <<aG, strategy, fractions, n_runs, seed, mt, original_size, results, all_lcc,
                all_diameter, run, G_copy, all_nodes, local_nodes, current_removed, fi,
                rank, apc, removed_log>>

erVars == <<eG, k, max_candidates, max_distance_km, lcc, H, node_list, lu, candidates,
            existing, tries, cand, scored, Hr, added, eret, epc, fallback>>

replay == <<calls, earlier>>

statsVars == <<sG, stats, spc>>

appVars == <<graph, removed_nodes, removed_edges, app_ret, active, app_op, explicit>>

routeVars == <<req, rpc, G_lcc, G_reinforced, passed>>

boundaryVars == <<statsVars, appVars, routeVars>>

vars == <<curveVars, heap, G_in, replay, boundaryVars, swapVars, attackVars, erVars>>

(***************************************************************************)
(* Each specification runs one call of one function; the variables of the  *)
(* other functions keep the values below.                                  *)
(***************************************************************************)
SwapIdle ==
    /\ G = 0
    /\ max_trials = 0
    /\ patience = 0
    /\ min_delta_R = [num |-> 0, den |-> 1]
    /\ prefilter = FALSE
    /\ fracs = <<>>
    /\ Gr = 0
    /\ order = <<>>
    /\ deg = <<>>
    /\ R_best = [num |-> 0, den |-> 1]
    /\ edges = {}
    /\ accepted = 0
    /\ no_improve = 0
    /\ r_evals = 0
    /\ t = <<>>
    /\ e1 = <<>>
    /\ e2 = <<>>
    /\ vi = 0
    /\ best_local = <<>>
    /\ info = <<>>
    /\ pc = "idle"
    /\ sampled = 0
    /\ exit_by = ""
    /\ evals = <<>>

\* the first call of a caller
FirstCall == calls = 0 /\ earlier = <<>>

StatsIdle ==
    /\ sG = <<>>
    /\ stats = <<>>
    /\ spc = "idle"

AppIdle ==
    /\ graph = 0
    /\ removed_nodes = {}
    /\ removed_edges = {}
    /\ app_ret = <<>>
    /\ active = 0
    /\ app_op = <<>>
    /\ explicit = {}

RouteIdle ==
    /\ req = <<>>
    /\ rpc = "idle"
    /\ G_lcc = 0
    /\ G_reinforced = 0
    /\ passed = <<>>

BoundaryIdle == StatsIdle /\ AppIdle /\ RouteIdle

\* the ranking frame outside a call
NoRank ==
    [fn |-> "", G |-> 0, k |-> 0, adaptive |-> TRUE, direct |-> FALSE, G_copy |-> 0,
     removed |-> <<>>, n |-> 0, i |-> 0, fallback |-> FALSE]

AttackIdle ==
    /\ aG = 0
    /\ strategy = ""
    /\ fractions = <<>>
    /\ n_runs = 0
    /\ seed = <<>>
    /\ mt = <<>>
    /\ original_size = 0
    /\ results = EmptyResults
    /\ all_lcc = <<>>
    /\ all_diameter = <<>>
    /\ run = 0
    /\ G_copy = 0
    /\ all_nodes = <<>>
    /\ local_nodes = <<>>
    /\ current_removed = 0
    /\ fi = 0
    /\ rank = NoRank
    /\ apc = "idle"
    /\ removed_log = <<>>

ErIdle ==
    /\ eG = 0
    /\ k = 0
    /\ max_candidates = 0
    /\ max_distance_km = <<>>
    /\ lcc = {}
    /\ H = 0
    /\ node_list = <<>>
    /\ lu = <<>>
    /\ candidates = <<>>
    /\ existing = {}
    /\ tries = 0
    /\ cand = <<>>
    /\ scored = <<>>
    /\ Hr = 0
    /\ added = <<>>
    /\ eret = <<>>
    /\ epc = "idle"
    /\ fallback = FALSE

(***************************************************************************)
(* lcc_curve_static_dsu, statement by statement.  G.adj[u] is visited in   *)
(* any order (networkx gives the order the edges were inserted in).  fracs *)
(* is read by the two return statements only, so it is drawn there.        *)
(***************************************************************************)
CurveIdle ==
    /\ cG = EmptyGraph
    /\ cOrder = <<>>
    /\ cFracs = <<>>
    /\ cst = CurveStart(0)
    /\ ct = 0
    /\ pending = {}
    /\ cret = <<>>
    /\ cpc = "idle"

\* the fraction ladders: up to CurveMaxLadder fractions num / CurveFracDen, some above 1
CurveLadders ==
    UNION {[1..len -> {[num |-> m, den |-> CurveFracDen] : m \in 0..(CurveFracDen + 1)}]
           : len \in 0..CurveMaxLadder}

CurveInit ==
    /\ FirstCall
    /\ BoundaryIdle
    /\ cG \in GraphsUpTo(CurveMaxNodes)
    /\ cOrder \in PermsOf(cG.nodes)
    /\ cFracs = <<>>
    /\ cst = CurveStart(Len(cG.nodes))
    /\ ct = 0
    /\ pending = {}
    /\ cret = <<>>
    /\ cpc = "outer"
    /\ heap = <<>>
    /\ G_in = EmptyGraph
    /\ SwapIdle
    /\ AttackIdle
    /\ ErIdle

\* if n == 0: return np.zeros_like(fracs)
CurveEmpty ==
    /\ cpc = "outer"
    /\ Len(cG.nodes) = 0
    /\ \E ladder \in CurveLadders :
          /\ cFracs' = ladder
          /\ cret' = ZerosLike(ladder)
    /\ cpc' = "done"
    /\ UNCHANGED <<cG, cOrder, cst, ct, pending>>
    /\ UNCHANGED <<heap, G_in, replay, boundaryVars, swapVars, attackVars, erVars>>

\* for t, u in enumerate(rev, start=1): active[iu] = True
CurveNextNode ==
    /\ cpc = "outer"
    /\ Len(cG.nodes) > 0
    /\ ct < Len(cOrder)
    /\ LET u == Reversed(cOrder)[ct + 1]
       IN /\ cst' = Activate(cst, cG, u)
          /\ pending' = Adj(cG, u)
    /\ ct' = ct + 1
    /\ cpc' = "inner"
    /\ UNCHANGED <<cG, cOrder, cFracs, cret>>
    /\ UNCHANGED <<heap, G_in, replay, boundaryVars, swapVars, attackVars, erVars>>

\* for v in G.adj[u]: if active[iv]: max_cc = max(max_cc, dsu.union(iu, iv))
CurveNeighbor ==
    /\ cpc = "inner"
    /\ \E v \in pending :
          /\ cst' = UnionNeighbor(cst, cG, Reversed(cOrder)[ct], v)
          /\ pending' = pending \ {v}
    /\ UNCHANGED <<cG, cOrder, cFracs, ct, cret, cpc>>
    /\ UNCHANGED <<heap, G_in, replay, boundaryVars, swapVars, attackVars, erVars>>

\* max_cc = max(max_cc, 1); lcc_after_k[n - t] = max_cc
CurveRecord ==
    /\ cpc = "inner"
    /\ pending = {}
    /\ cst' = RecordK(cst, Len(cG.nodes), ct)
    /\ cpc' = "outer"
    /\ UNCHANGED <<cG, cOrder, cFracs, ct, pending, cret>>
    /\ UNCHANGED <<heap, G_in, replay, boundaryVars, swapVars, attackVars, erVars>>

\* ks = np.clip(np.rint(fracs * n).astype(int), 0, n); return lcc_after_k[ks] / n
CurveReturn ==
    /\ cpc = "outer"
    /\ Len(cG.nodes) > 0
    /\ ct = Len(cOrder)
    /\ \E ladder \in CurveLadders :
          /\ cFracs' = ladder
          /\ cret' = CurveSamples(cst.lcc_after_k, ladder, Len(cG.nodes))
    /\ cpc' = "done"
    /\ UNCHANGED <<cG, cOrder, cst, ct, pending>>
    /\ UNCHANGED <<heap, G_in, replay, boundaryVars, swapVars, attackVars, erVars>>

CurveNext ==
    \/ CurveEmpty
    \/ CurveNextNode
    \/ CurveNeighbor
    \/ CurveRecord
    \/ CurveReturn

SpecCurve == CurveInit /\ [][CurveNext]_vars

(***************************************************************************)
(* optimize_schneider_fast.  Init is the call; one action per statement    *)
(* group of the trial loop, so that the temporarily swapped graph is a     *)
(* state of the model.                                                     *)
(***************************************************************************)
\* a coarse ladder: the fractions 0, 1/4, 1/2
CoarseFracs == <<[num |-> 0, den |-> 4], [num |-> 1, den |-> 4], [num |-> 2, den |-> 4]>>

\* the default min_delta_R = 1e-6
DefaultMinDelta == [num |-> 1, den |-> 1000000]

\* the calls that vary the graph: every simple graph of at most SwapMaxNodes nodes,
\* with and without the prefilter, with the default ladder and threshold or with
\* the coarse ladder and a zero threshold
SwapCallsByGraph ==
    [g : GraphsUpTo(SwapMaxNodes),
     max_trials : {SwapMaxTrials},
     patience : {SwapMaxPatience},
     prefilter : BOOLEAN,
     tune : {[fracs |-> DefaultFracs, min_delta_R |-> DefaultMinDelta],
             [fracs |-> CoarseFracs, min_delta_R |-> [num |-> 0, den |-> 1]]}]

\* the calls that vary the loop limits, on the graphs of at most LoopMaxEdges edges
SwapCallsByLimits ==
    [g : {h \in GraphsUpTo(SwapMaxNodes) : Cardinality(h.edges) <= LoopMaxEdges},
     max_trials : 0..SwapMaxTrials,
     patience : 0..SwapMaxPatience,
     prefilter : {FALSE},
     tune : {[fracs |-> CoarseFracs, min_delta_R |-> [num |-> 0, den |-> 1]]}]

SwapInit ==
    /\ FirstCall
    /\ BoundaryIdle
    /\ \E call \in SwapCallsByGraph \cup SwapCallsByLimits :
          /\ heap = <<call.g>>
          /\ G_in = call.g
          /\ max_trials = call.max_trials
          /\ patience = call.patience
          /\ prefilter = call.prefilter
          /\ fracs = call.tune.fracs
          /\ min_delta_R = call.tune.min_delta_R
    /\ G = 1
    /\ Gr = 0
    /\ order = <<>>
    /\ deg = <<>>
    /\ R_best = [num |-> 0, den |-> 1]
    /\ edges = {}
    /\ accepted = 0
    /\ no_improve = 0
    /\ r_evals = 0
    /\ t = <<>>
    /\ e1 = <<>>
    /\ e2 = <<>>
    /\ vi = 0
    /\ best_local = <<>>
    /\ info = <<>>
    /\ pc = "start"
    /\ sampled = 0
    /\ exit_by = ""
    /\ evals = <<>>
    /\ CurveIdle
    /\ AttackIdle
    /\ ErIdle

\* the value the for statement assigns to t next
NextT == IF t = <<>> THEN 1 ELSE t[1] + 1

\* a break test that lets the counter pass the threshold before it stops
BreakConditionStrict == no_improve > patience \/ NumberOfEdges(heap[Gr]) < 2

\* no_improve >= patience or Gr.number_of_edges() < 2
BreakCondition == no_improve >= patience \/ NumberOfEdges(heap[Gr]) < 2

\* lines 515-521: Gr = G.copy(), the static order, the degrees
SwapCopy ==
    /\ pc = "start"
    /\ LET c == GraphCopy(heap, G)
       IN /\ heap' = c.heap
          /\ Gr' = c.ref
          /\ order' = StaticOrderByDegree(heap[G])
          /\ deg' = DegreeDict(heap[G])
    /\ pc' = "first"
    /\ UNCHANGED <<swapInputs, R_best, edges, accepted, no_improve, r_evals, t, e1, e2, vi,
                   best_local, info, sampled, exit_by, evals>>
    /\ UNCHANGED <<G_in, replay, boundaryVars, curveVars, attackVars, erVars>>

\* lines 524-529: the first R, the edge list, the counters
SwapFirstR ==
    /\ pc = "first"
    /\ R_best' = RobustnessRStaticFast(heap[Gr], fracs, order)
    /\ edges' = EdgeList(heap[Gr])
    /\ accepted' = 0
    /\ no_improve' = 0
    /\ r_evals' = 1
    /\ pc' = "loop"
    /\ UNCHANGED <<swapInputs, Gr, order, deg, t, e1, e2, vi, best_local, info, sampled,
                   exit_by, evals>>
    /\ UNCHANGED <<heap, G_in, replay, boundaryVars, curveVars, attackVars, erVars>>

\* for t in range(1, max_trials + 1): the range is used up
SwapExhausted ==
    /\ pc = "loop"
    /\ NextT > max_trials
    /\ pc' = "info"
    /\ exit_by' = "exhausted"
    /\ UNCHANGED <<swapInputs, Gr, order, deg, R_best, edges, accepted, no_improve,
                   r_evals, t, e1, e2, vi, best_local, info, sampled, evals>>
    /\ UNCHANGED <<heap, G_in, replay, boundaryVars, curveVars, attackVars, erVars>>

\* if no_improve >= patience or Gr.number_of_edges() < 2: break
SwapBreak ==
    /\ pc = "loop"
    /\ NextT <= max_trials
    /\ BreakCondition
    /\ t' = <<NextT>>
    /\ pc' = "info"
    /\ exit_by' = IF no_improve >= patience THEN "patience" ELSE "edges"
    /\ UNCHANGED <<swapInputs, Gr, order, deg, R_best, edges, accepted, no_improve,
                   r_evals, e1, e2, vi, best_local, info, sampled, evals>>
    /\ UNCHANGED <<heap, G_in, replay, boundaryVars, curveVars, attackVars, erVars>>

\* e1, e2 = rng.sample(edges, 2); if len(set(e1 + e2)) < 4: no_improve += 1; continue
\* (the sampled pair is not read again, so it is not kept)
SwapSampleDegenerate ==
    /\ pc = "loop"
    /\ NextT <= max_trials
    /\ ~BreakCondition
    /\ \E a1 \in edges, a2 \in edges :
          /\ a1 # a2
          /\ Cardinality({a1[1], a1[2], a2[1], a2[2]}) < 4
    /\ t' = <<NextT>>
    /\ sampled' = sampled + 1
    /\ no_improve' = no_improve + 1
    /\ UNCHANGED <<swapInputs, Gr, order, deg, R_best, edges, accepted, r_evals, e1, e2,
                   vi, best_local, info, pc, exit_by, evals>>
    /\ UNCHANGED <<heap, G_in, replay, boundaryVars, curveVars, attackVars, erVars>>

\* e1, e2 = rng.sample(edges, 2) with four distinct endpoints; best_local = None
SwapSample ==
    /\ pc = "loop"
    /\ NextT <= max_trials
    /\ ~BreakCondition
    /\ \E a1 \in edges, a2 \in edges :
          /\ a1 # a2
          /\ Cardinality({a1[1], a1[2], a2[1], a2[2]}) >= 4
          /\ e1' = a1
          /\ e2' = a2
    /\ t' = <<NextT>>
    /\ sampled' = sampled + 1
    /\ best_local' = <<>>
    /\ evals' = <<>>
    /\ vi' = 1
    /\ pc' = "variant"
    /\ UNCHANGED <<swapInputs, Gr, order, deg, R_best, edges, accepted, no_improve,
                   r_evals, info, exit_by>>
    /\ UNCHANGED <<heap, G_in, replay, boundaryVars, curveVars, attackVars, erVars>>

\* where the inner for loop goes after recombination vi
AfterVariant == IF vi = 1 THEN "variant" ELSE "decide"

\* one of the `continue` tests rejects recombination vi
SwapVariantSkip ==
    /\ pc = "variant"
    /\ LET v == Variant(e1, e2, vi)
       IN ~VariantValid(heap[Gr], deg, prefilter, e1, e2, v.ne1, v.ne2)
    /\ vi' = vi + 1
    /\ pc' = AfterVariant
    /\ UNCHANGED <<swapInputs, Gr, order, deg, R_best, edges, accepted, no_improve,
                   r_evals, t, e1, e2, best_local, info, sampled, exit_by, evals>>
    /\ UNCHANGED <<heap, G_in, replay, boundaryVars, curveVars, attackVars, erVars>>

\* lines 594-597: the recombination is applied to Gr for evaluation
SwapVariantApply ==
    /\ pc = "variant"
    /\ LET v == Variant(e1, e2, vi)
       IN /\ VariantValid(heap[Gr], deg, prefilter, e1, e2, v.ne1, v.ne2)
          /\ heap' = [heap EXCEPT ![Gr] = ApplySwap(heap[Gr], e1, e2, v.ne1, v.ne2)]
    /\ pc' = "applied"
    /\ UNCHANGED <<swapInputs, Gr, order, deg, R_best, edges, accepted, no_improve,
                   r_evals, t, e1, e2, vi, best_local, info, sampled, exit_by, evals>>
    /\ UNCHANGED <<G_in, replay, boundaryVars, curveVars, attackVars, erVars>>

\* lines 600-611: R_new is computed, the recombination is undone, best_local is kept
SwapVariantEvaluate ==
    /\ pc = "applied"
    /\ LET v == Variant(e1, e2, vi)
           R_new == RobustnessRStaticFast(heap[Gr], fracs, order)
       IN /\ heap' = [heap EXCEPT ![Gr] = ApplySwap(heap[Gr], v.ne1, v.ne2, e1, e2)]
          /\ best_local' =
                IF best_local = <<>> \/ RGreater(R_new, best_local[1].R)
                THEN <<[R |-> R_new, ne1 |-> v.ne1, ne2 |-> v.ne2]>>
                ELSE best_local
          /\ evals' = Append(evals, [R |-> R_new, ne1 |-> v.ne1, ne2 |-> v.ne2])
    /\ r_evals' = r_evals + 1
    /\ vi' = vi + 1
    /\ pc' = AfterVariant
    /\ UNCHANGED <<swapInputs, Gr, order, deg, R_best, edges, accepted, no_improve,
                   t, e1, e2, info, sampled, exit_by>>
    /\ UNCHANGED <<G_in, replay, boundaryVars, curveVars, attackVars, erVars>>

\* best_local is not None and best_local[0] > R_best + min_delta_R
AcceptCondition == best_local # <<>> /\ Exceeds(best_local[1].R, R_best, min_delta_R)

\* lines 614-626: the better recombination is applied for good
SwapAccept ==
    /\ pc = "decide"
    /\ AcceptCondition
    /\ LET b == best_local[1]
           g2 == ApplySwap(heap[Gr], e1, e2, b.ne1, b.ne2)
       IN /\ heap' = [heap EXCEPT ![Gr] = g2]
          /\ R_best' = b.R
          /\ edges' = EdgeList(g2)
    /\ accepted' = accepted + 1
    /\ no_improve' = 0
    /\ pc' = "loop"
    /\ UNCHANGED <<swapInputs, Gr, order, deg, r_evals, t, e1, e2, vi, best_local, info,
                   sampled, exit_by, evals>>
    /\ UNCHANGED <<G_in, replay, boundaryVars, curveVars, attackVars, erVars>>

\* lines 627-628: else: no_improve += 1
SwapReject ==
    /\ pc = "decide"
    /\ ~AcceptCondition
    /\ no_improve' = no_improve + 1
    /\ pc' = "loop"
    /\ UNCHANGED <<swapInputs, Gr, order, deg, R_best, edges, accepted, r_evals, t, e1, e2,
                   vi, best_local, info, sampled, exit_by, evals>>
    /\ UNCHANGED <<heap, G_in, replay, boundaryVars, curveVars, attackVars, erVars>>

\* lines 630-639 with t bound: the info dict is built and returned with Gr
SwapReturn ==
    /\ pc = "info"
    /\ t # <<>>
    /\ info' = <<[R_best_static |-> R_best,
                  accepted_swaps |-> accepted,
                  trials_done |-> t[1],
                  R_evaluations |-> r_evals,
                  stopped_by_patience |-> (no_improve >= patience),
                  fracs_points |-> Len(fracs),
                  prefilter |-> prefilter]>>
    /\ pc' = "done"
    /\ UNCHANGED <<swapInputs, Gr, order, deg, R_best, edges, accepted, no_improve,
                   r_evals, t, e1, e2, vi, best_local, sampled, exit_by, evals>>
    /\ UNCHANGED <<heap, G_in, replay, boundaryVars, curveVars, attackVars, erVars>>

\* line 633 with t unbound (the loop body never ran): UnboundLocalError
SwapRaise ==
    /\ pc = "info"
    /\ t = <<>>
    /\ pc' = "raised"
    /\ UNCHANGED <<swapInputs, Gr, order, deg, R_best, edges, accepted, no_improve,
                   r_evals, t, e1, e2, vi, best_local, info, sampled, exit_by, evals>>
    /\ UNCHANGED <<heap, G_in, replay, boundaryVars, curveVars, attackVars, erVars>>

SwapNext ==
    \/ SwapCopy
    \/ SwapFirstR
    \/ SwapExhausted
    \/ SwapBreak
    \/ SwapSampleDegenerate
    \/ SwapSample
    \/ SwapVariantSkip
    \/ SwapVariantApply
    \/ SwapVariantEvaluate
    \/ SwapAccept
    \/ SwapReject
    \/ SwapReturn
    \/ SwapRaise

SpecSwap == SwapInit /\ [][SwapNext]_vars

(***************************************************************************)
(* The endpoint /graph/stats: get_stats on the loaded graph, HTTP 400 when *)
(* no graph is loaded.                                                     *)
(***************************************************************************)
StatsInit ==
    /\ FirstCall
    /\ sG \in {<<>>} \cup {<<g>> : g \in GraphsUpTo(StatsMaxNodes)}
    /\ stats = <<>>
    /\ spc = "request"
    /\ heap = <<>>
    /\ G_in = EmptyGraph
    /\ AppIdle
    /\ RouteIdle
    /\ CurveIdle
    /\ SwapIdle
    /\ AttackIdle
    /\ ErIdle

\* if app_state.graph is None: raise HTTPException(400, "Graph not loaded")
StatsReject ==
    /\ spc = "request"
    /\ sG = <<>>
    /\ spc' = "rejected"
    /\ UNCHANGED <<sG, stats>>
    /\ UNCHANGED <<heap, G_in, replay, appVars, routeVars, curveVars, swapVars, attackVars,
                   erVars>>

\* return get_stats(app_state.graph)
StatsReturn ==
    /\ spc = "request"
    /\ sG # <<>>
    /\ stats' = <<GetStats(sG[1])>>
    /\ spc' = "done"
    /\ UNCHANGED sG
    /\ UNCHANGED <<heap, G_in, replay, appVars, routeVars, curveVars, swapVars, attackVars,
                   erVars>>

StatsNext == StatsReject \/ StatsReturn

\* the metric functions and the curve function, each on its own inputs
MetricsInit == StatsInit \/ CurveInit

MetricsNext == StatsNext \/ CurveNext

SpecMetrics == MetricsInit /\ [][MetricsNext]_vars

(***************************************************************************)
(* AppState.  Init is the object after the graph was loaded (or was not:   *)
(* graph is None); every action is one call of one method, with any node   *)
(* ids as arguments, ids that are not nodes of the graph included.         *)
(***************************************************************************)
AppIds == 1..(AppMaxNodes + 1)

\* the two removed sets
Overlay == [removed_nodes |-> removed_nodes, removed_edges |-> removed_edges]

\* the record of a call, for the history; the sets before it are kept for
\* remove_node only
Called(op, args) ==
    <<[op |-> op, args |-> args,
       before |-> IF op = "remove_node" THEN <<Overlay>> ELSE <<>>]>>

\* the caller of get_active_graph drops the graph it got when its request
\* ends, before the next call of a method
Dropped ==
    /\ active' = 0
    /\ heap' = IF graph = 0 THEN <<>> ELSE <<heap[graph]>>

AppInit ==
    /\ FirstCall
    /\ \/ \E g \in GraphsUpTo(AppMaxNodes) :
             /\ heap = <<g>>
             /\ G_in = g
             /\ graph = 1
       \/ /\ heap = <<>>
          /\ G_in = EmptyGraph
          /\ graph = 0
    /\ removed_nodes = {}
    /\ removed_edges = {}
    /\ app_ret = <<>>
    /\ active = 0
    /\ app_op = <<>>
    /\ explicit = {}
    /\ StatsIdle
    /\ RouteIdle
    /\ CurveIdle
    /\ SwapIdle
    /\ AttackIdle
    /\ ErIdle

\* the variables of the other functions
AppFrame ==
    UNCHANGED <<G_in, replay, statsVars, routeVars, curveVars, swapVars, attackVars, erVars>>

\* get_active_graph
GetActiveGraph ==
    /\ app_op' = Called("get_active_graph", <<>>)
    /\ IF graph = 0
       THEN /\ active' = 0
            /\ heap' = heap
       ELSE LET c == GraphCopy(<<heap[graph]>>, graph)
            IN /\ heap' = [c.heap EXCEPT ![c.ref] =
                              RemoveEdgesFrom(RemoveNodesFrom(@, removed_nodes),
                                              removed_edges)]
               /\ active' = c.ref
    /\ UNCHANGED <<graph, removed_nodes, removed_edges, app_ret, explicit>>
    /\ AppFrame

\* remove_node(node_id)
AppRemoveNode ==
    \E node_id \in AppIds :
        /\ app_op' = Called("remove_node", <<node_id>>)
        /\ IF graph = 0 \/ node_id \notin Range(heap[graph].nodes)
           THEN /\ app_ret' = <<FALSE>>
                /\ UNCHANGED <<removed_nodes, removed_edges>>
           ELSE /\ removed_nodes' = removed_nodes \cup {node_id}
                /\ removed_edges' =
                       removed_edges \cup IncidentTuples(heap[graph], node_id)
                /\ app_ret' = <<TRUE>>
        /\ Dropped
        /\ UNCHANGED <<graph, explicit>>
        /\ AppFrame

\* restore_node(node_id)
AppRestoreNode ==
    \E node_id \in AppIds :
        /\ app_op' = Called("restore_node", <<node_id>>)
        /\ IF node_id \in removed_nodes
           THEN /\ removed_nodes' = removed_nodes \ {node_id}
                /\ removed_edges' =
                       IF graph # 0 /\ node_id \in Range(heap[graph].nodes)
                       THEN removed_edges \ IncidentTuples(heap[graph], node_id)
                       ELSE removed_edges
                /\ app_ret' = <<TRUE>>
           ELSE /\ app_ret' = <<FALSE>>
                /\ UNCHANGED <<removed_nodes, removed_edges>>
        /\ Dropped
        /\ UNCHANGED <<graph, explicit>>
        /\ AppFrame

\* remove_edge(src, dst)
AppRemoveEdge ==
    \E src, dst \in AppIds :
        LET edge == SortedPair(src, dst)
        IN /\ app_op' = Called("remove_edge", <<src, dst>>)
           /\ IF graph = 0
              THEN /\ app_ret' = <<FALSE>>
                   /\ UNCHANGED <<removed_edges, explicit>>
              ELSE IF /\ edge[1] \in Range(heap[graph].nodes)
                      /\ edge[2] \in Range(heap[graph].nodes)
                      /\ HasEdge(heap[graph], edge[1], edge[2])
              THEN /\ removed_edges' = removed_edges \cup {edge}
                   /\ explicit' = explicit \cup {edge}
                   /\ app_ret' = <<TRUE>>
              ELSE /\ app_ret' = <<FALSE>>
                   /\ UNCHANGED <<removed_edges, explicit>>
           /\ Dropped
           /\ UNCHANGED <<graph, removed_nodes>>
           /\ AppFrame

\* restore_edge(src, dst)
AppRestoreEdge ==
    \E src, dst \in AppIds :
        LET edge == SortedPair(src, dst)
        IN /\ app_op' = Called("restore_edge", <<src, dst>>)
           /\ IF edge \in removed_edges
              THEN /\ removed_edges' = removed_edges \ {edge}
                   /\ app_ret' = <<TRUE>>
              ELSE /\ app_ret' = <<FALSE>>
                   /\ UNCHANGED removed_edges
           /\ explicit' = explicit \ {edge}
           /\ Dropped
           /\ UNCHANGED <<graph, removed_nodes>>
           /\ AppFrame

\* reset()
AppReset ==
    /\ app_op' = Called("reset", <<>>)
    /\ removed_nodes' = {}
    /\ removed_edges' = {}
    /\ app_ret' = <<>>
    /\ explicit' = {}
    /\ Dropped
    /\ UNCHANGED graph
    /\ AppFrame

AppNext ==
    \/ GetActiveGraph
    \/ AppRemoveNode
    \/ AppRestoreNode
    \/ AppRemoveEdge
    \/ AppRestoreEdge
    \/ AppReset

SpecApp == AppInit /\ [][AppNext]_vars

(***************************************************************************)
(* simulate_attack.  Init is the call; the ranking function called to      *)
(* pre-select the removal order runs one loop iteration per action on its  *)
(* own frame `rank`.  np.random.choice(nodes, size=len(nodes),             *)
(* replace=False) is any ordering of the nodes.  nx.pagerank is a          *)
(* floating-point iteration of the library: its best-ranked node is any    *)
(* node of the working copy, and when it raises the degrees rank instead.  *)
(***************************************************************************)
Strategies ==
    {"random_attack", "degree_targeted_attack", "pagerank_targeted_attack",
     "betweenness_targeted_attack", "degree"}

\* the fractions a ladder is made of: 0, 1/4, 1/2, 1 and 3/2
AttackFractions == {[num |-> m, den |-> 4] : m \in {0, 1, 2, 4, 6}}

AttackLadders == UNION {[1..len -> AttackFractions] : len \in 0..AttackMaxLadder}

\* seed=None and a seed
AttackSeeds == {<<>>, <<0>>}

\* the cycle 1-2-3-4-5-1, as a networkx generator builds it
Cycle5 ==
    LET E == {{1, 2}, {2, 3}, {3, 4}, {4, 5}, {5, 1}}
    IN [nodes |-> Iota(5), edges |-> E,
        nattr |-> [i \in 1..5 |-> {}],
        eattr |-> [e \in E |-> {}]]

\* a degree-targeted attack on the cycle, sampled after 0, 1, 3 and 5 removals
CycleCall ==
    [g |-> Cycle5,
     strategy |-> "degree_targeted_attack",
     fractions |-> <<[i \in 1..4 |-> [num |-> <<0, 1, 3, 5>>[i], den |-> 5]]>>,
     n_runs |-> 1,
     seed |-> <<>>]

AttackCalls ==
    [g : GraphsUpTo(AttackMaxNodes),
     strategy : Strategies,
     fractions : {<<>>} \cup {<<ladder>> : ladder \in AttackLadders},
     n_runs : 1..AttackMaxRuns,
     seed : AttackSeeds]

AttackInit ==
    /\ FirstCall
    /\ BoundaryIdle
    /\ \E call \in AttackCalls \cup {CycleCall} :
          /\ heap = <<call.g>>
          /\ G_in = call.g
          /\ strategy = call.strategy
          /\ fractions = call.fractions
          /\ n_runs = call.n_runs
          /\ seed = call.seed
    /\ mt = <<>>
    /\ aG = 1
    /\ original_size = 0
    /\ results = EmptyResults
    /\ all_lcc = <<>>
    /\ all_diameter = <<>>
    /\ run = 0
    /\ G_copy = 0
    /\ all_nodes = <<>>
    /\ local_nodes = <<>>
    /\ current_removed = 0
    /\ fi = 0
    /\ rank = NoRank
    /\ apc = "start"
    /\ removed_log = <<>>
    /\ CurveIdle
    /\ SwapIdle
    /\ ErIdle

\* the list `fractions` once the default is in place
Ladder == fractions[1]

\* the condition of `while current_removed < target_removed and <list>`
RemovalPending(list) ==
    /\ current_removed < TargetRemoved(Ladder[fi], original_size)
    /\ list # <<>>

\* the ratio metrics.lcc_size computes instead: the component over the nodes left
LccSizeOverCurrent ==
    [num |-> Cardinality(GetLcc(heap[G_copy])), den |-> Len(heap[G_copy].nodes)]

\* lcc_size_normalized = len(lcc_nodes) / N0
LccSizeNormalized == [num |-> Cardinality(GetLcc(heap[G_copy])), den |-> original_size]

\* diameter_val = diameter(G_copy)
DiameterVal == [num |-> Diameter(heap[G_copy]), den |-> 1]

\* if len(G) == 0: return the three empty curves
AttackEmpty ==
    /\ apc = "start"
    /\ Len(heap[aG].nodes) = 0
    /\ results' = EmptyResults
    /\ apc' = "done"
    /\ UNCHANGED <<aG, seed, mt, strategy, fractions, n_runs, original_size, all_lcc, all_diameter,
                   run, G_copy, all_nodes, local_nodes, current_removed, fi, rank,
                   removed_log>>
    /\ UNCHANGED <<heap, G_in, replay, boundaryVars, curveVars, swapVars, erVars>>

\* the default ladder, N0, and the dicts of the multi-run branch
AttackStartMulti ==
    /\ apc = "start"
    /\ Len(heap[aG].nodes) # 0
    /\ strategy = "random_attack" /\ n_runs > 1
    /\ fractions' = IF fractions = <<>> THEN <<DefaultLadder>> ELSE fractions
    /\ original_size' = Len(heap[aG].nodes)
    /\ results' = EmptyResults
    /\ all_lcc' = [f \in Range(fractions'[1]) |-> <<>>]
    /\ all_diameter' = [f \in Range(fractions'[1]) |-> <<>>]
    /\ run' = 0
    /\ apc' = "runs"
    /\ UNCHANGED <<aG, seed, mt, strategy, n_runs, G_copy, all_nodes, local_nodes, current_removed,
                   fi, rank, removed_log>>
    /\ UNCHANGED <<heap, G_in, replay, boundaryVars, curveVars, swapVars, erVars>>

\* for run in range(n_runs): G_copy = G.copy(); all_nodes = random_attack(...)
MultiRunStart ==
    /\ apc = "runs"
    /\ run < n_runs
    /\ LET c == GraphCopy(heap, aG)
       IN /\ heap' = c.heap
          /\ G_copy' = c.ref
    /\ \E r \in RandomAttack(heap[aG].nodes, original_size, RunSeed(seed, run), mt) :
          /\ all_nodes' = r.ret
          /\ local_nodes' = r.ret
          /\ mt' = r.mt
    /\ current_removed' = 0
    /\ fi' = 1
    /\ apc' = "mladder"
    /\ UNCHANGED <<aG, seed, strategy, fractions, n_runs, original_size, results, all_lcc,
                   all_diameter, run, rank, removed_log>>
    /\ UNCHANGED <<G_in, replay, boundaryVars, curveVars, swapVars, erVars>>

\* node = local_nodes.pop(0); if node in G_copy: remove it and count it
MultiRemoveNode ==
    /\ apc = "mladder"
    /\ fi <= Len(Ladder)
    /\ RemovalPending(local_nodes)
    /\ LET node == Head(local_nodes)
       IN IF node \in Range(heap[G_copy].nodes)
          THEN /\ heap' = [heap EXCEPT ![G_copy] = RemoveNode(heap[G_copy], node)]
               /\ current_removed' = current_removed + 1
          ELSE UNCHANGED <<heap, current_removed>>
    /\ local_nodes' = Tail(local_nodes)
    /\ UNCHANGED <<aG, seed, mt, strategy, fractions, n_runs, original_size, results, all_lcc,
                   all_diameter, run, G_copy, all_nodes, fi, rank, apc, removed_log>>
    /\ UNCHANGED <<G_in, replay, boundaryVars, curveVars, swapVars, erVars>>

\* all_lcc[fraction].append(...); all_diameter[fraction].append(...)
MultiSample ==
    /\ apc = "mladder"
    /\ fi <= Len(Ladder)
    /\ ~RemovalPending(local_nodes)
    /\ all_lcc' = [all_lcc EXCEPT ![Ladder[fi]] = Append(@, LccSizeNormalized)]
    /\ all_diameter' = [all_diameter EXCEPT ![Ladder[fi]] = Append(@, DiameterVal)]
    /\ removed_log' = Append(removed_log,
                             [fraction |-> Ladder[fi], removed |-> current_removed])
    /\ fi' = fi + 1
    /\ UNCHANGED <<aG, seed, mt, strategy, fractions, n_runs, original_size, results, run, G_copy,
                   all_nodes, local_nodes, current_removed, rank, apc>>
    /\ UNCHANGED <<heap, G_in, replay, boundaryVars, curveVars, swapVars, erVars>>

\* the ladder of this run is done: next run
MultiRunEnd ==
    /\ apc = "mladder"
    /\ fi > Len(Ladder)
    /\ run' = run + 1
    /\ apc' = "runs"
    /\ UNCHANGED <<aG, seed, mt, strategy, fractions, n_runs, original_size, results, all_lcc,
                   all_diameter, G_copy, all_nodes, local_nodes, current_removed, fi, rank,
                   removed_log>>
    /\ UNCHANGED <<heap, G_in, replay, boundaryVars, curveVars, swapVars, erVars>>

\* for fraction in fractions: append fraction and the means; return results
MultiMean ==
    /\ apc = "runs"
    /\ run >= n_runs
    /\ results' = MeanResults(results, Ladder, all_lcc, all_diameter, 1)
    /\ apc' = "done"
    /\ UNCHANGED <<aG, seed, mt, strategy, fractions, n_runs, original_size, all_lcc, all_diameter,
                   run, G_copy, all_nodes, local_nodes, current_removed, fi, rank,
                   removed_log>>
    /\ UNCHANGED <<heap, G_in, replay, boundaryVars, curveVars, swapVars, erVars>>

\* the default ladder, N0, G_copy = G.copy(), current_removed = 0
AttackStartSingle ==
    /\ apc = "start"
    /\ Len(heap[aG].nodes) # 0
    /\ ~(strategy = "random_attack" /\ n_runs > 1)
    /\ fractions' = IF fractions = <<>> THEN <<DefaultLadder>> ELSE fractions
    /\ original_size' = Len(heap[aG].nodes)
    /\ results' = EmptyResults
    /\ LET c == GraphCopy(heap, aG)
       IN /\ heap' = c.heap
          /\ G_copy' = c.ref
    /\ current_removed' = 0
    /\ apc' = "select"
    /\ UNCHANGED <<aG, seed, mt, strategy, n_runs, all_lcc, all_diameter, run, all_nodes,
                   local_nodes, fi, rank, removed_log>>
    /\ UNCHANGED <<G_in, replay, boundaryVars, curveVars, swapVars, erVars>>

\* all_nodes = random_attack(G_copy, original_size, seed=seed)
AttackSelectRandom ==
    /\ apc = "select"
    /\ strategy = "random_attack"
    /\ \E r \in RandomAttack(heap[G_copy].nodes, original_size, seed, mt) :
          /\ all_nodes' = r.ret
          /\ mt' = r.mt
    /\ fi' = 1
    /\ apc' = "ladder"
    /\ UNCHANGED <<aG, seed, strategy, fractions, n_runs, original_size, results, all_lcc,
                   all_diameter, run, G_copy, local_nodes, current_removed, rank,
                   removed_log>>
    /\ UNCHANGED <<heap, G_in, replay, boundaryVars, curveVars, swapVars, erVars>>

RankingFunctions ==
    {"degree_targeted_attack", "pagerank_targeted_attack", "betweenness_targeted_attack"}

\* the call <strategy>(G_copy, original_size, adaptive=True), up to its loop:
\* removed = [], G_copy = G.copy(), range(min(k, len(G)))
AttackSelectRanked ==
    /\ apc = "select"
    /\ strategy \in RankingFunctions
    /\ LET c == GraphCopy(heap, G_copy)
       IN /\ heap' = c.heap
          /\ rank' = [fn |-> strategy, G |-> G_copy, k |-> original_size,
                      adaptive |-> TRUE, direct |-> FALSE, G_copy |-> c.ref,
                      removed |-> <<>>,
                      n |-> Min2(original_size, Len(heap[G_copy].nodes)), i |-> 0,
                      fallback |-> FALSE]
    /\ apc' = "rank"
    /\ UNCHANGED <<aG, seed, mt, strategy, fractions, n_runs, original_size, results, all_lcc,
                   all_diameter, run, G_copy, all_nodes, local_nodes, current_removed, fi,
                   removed_log>>
    /\ UNCHANGED <<G_in, replay, boundaryVars, curveVars, swapVars, erVars>>

\* else: all_nodes = []
AttackSelectNone ==
    /\ apc = "select"
    /\ strategy # "random_attack"
    /\ strategy \notin RankingFunctions
    /\ all_nodes' = <<>>
    /\ fi' = 1
    /\ apc' = "ladder"
    /\ UNCHANGED <<aG, seed, mt, strategy, fractions, n_runs, original_size, results, all_lcc,
                   all_diameter, run, G_copy, local_nodes, current_removed, rank,
                   removed_log>>
    /\ UNCHANGED <<heap, G_in, replay, boundaryVars, curveVars, swapVars, erVars>>

\* the `break` at the top of the loop body of the ranking function
RankBreak ==
    IF rank.fn = "betweenness_targeted_attack"
    THEN Len(heap[rank.G_copy].nodes) < 2
    ELSE Len(heap[rank.G_copy].nodes) = 0

\* removed.append(target); if adaptive: G_copy.remove_node(target)
RankRemove(target, degraded) ==
    /\ rank' = [rank EXCEPT !.removed = Append(@, target), !.i = @ + 1,
                            !.fallback = @ \/ degraded]
    /\ heap' = IF rank.adaptive
               THEN [heap EXCEPT ![rank.G_copy] = RemoveNode(@, target)]
               ELSE heap
    /\ UNCHANGED <<aG, seed, mt, strategy, fractions, n_runs, original_size, results, all_lcc,
                   all_diameter, run, G_copy, all_nodes, local_nodes, current_removed, fi,
                   apc, removed_log>>
    /\ UNCHANGED <<G_in, replay, boundaryVars, curveVars, swapVars, erVars>>

\* degree_targeted_attack: one iteration
RankDegree ==
    /\ apc = "rank"
    /\ rank.fn = "degree_targeted_attack"
    /\ rank.i < rank.n
    /\ ~RankBreak
    /\ RankRemove(FirstMax(heap[rank.G_copy], DegreeDict(heap[rank.G_copy])), FALSE)

\* pagerank_targeted_attack: one iteration
RankPagerank ==
    /\ apc = "rank"
    /\ rank.fn = "pagerank_targeted_attack"
    /\ rank.i < rank.n
    /\ ~RankBreak
    /\ \/ \E target \in Range(heap[rank.G_copy].nodes) : RankRemove(target, FALSE)
       \/ RankRemove(FirstMax(heap[rank.G_copy], DegreeDict(heap[rank.G_copy])), TRUE)

\* betweenness_targeted_attack: one iteration
RankBetweenness ==
    /\ apc = "rank"
    /\ rank.fn = "betweenness_targeted_attack"
    /\ rank.i < rank.n
    /\ ~RankBreak
    /\ \E target \in MaxBetweenness(heap[rank.G_copy]) : RankRemove(target, FALSE)

\* return removed, which simulate_attack binds to all_nodes
RankReturn ==
    /\ apc = "rank"
    /\ ~rank.direct
    /\ rank.i >= rank.n \/ RankBreak
    /\ all_nodes' = rank.removed
    /\ rank' = NoRank
    /\ fi' = 1
    /\ apc' = "ladder"
    /\ UNCHANGED <<aG, seed, mt, strategy, fractions, n_runs, original_size, results, all_lcc,
                   all_diameter, run, G_copy, local_nodes, current_removed, removed_log>>
    /\ UNCHANGED <<heap, G_in, replay, boundaryVars, curveVars, swapVars, erVars>>

\* node = all_nodes.pop(0); if node in G_copy: remove it and count it
AttackRemoveNode ==
    /\ apc = "ladder"
    /\ fi <= Len(Ladder)
    /\ RemovalPending(all_nodes)
    /\ LET node == Head(all_nodes)
       IN IF node \in Range(heap[G_copy].nodes)
          THEN /\ heap' = [heap EXCEPT ![G_copy] = RemoveNode(heap[G_copy], node)]
               /\ current_removed' = current_removed + 1
          ELSE UNCHANGED <<heap, current_removed>>
    /\ all_nodes' = Tail(all_nodes)
    /\ UNCHANGED <<aG, seed, mt, strategy, fractions, n_runs, original_size, results, all_lcc,
                   all_diameter, run, G_copy, local_nodes, fi, rank, apc, removed_log>>
    /\ UNCHANGED <<G_in, replay, boundaryVars, curveVars, swapVars, erVars>>

\* the metrics of G_copy are appended to the three curves
AttackSample ==
    /\ apc = "ladder"
    /\ fi <= Len(Ladder)
    /\ ~RemovalPending(all_nodes)
    /\ results' = AppendResults(results, Ladder[fi], LccSizeNormalized, DiameterVal)
    /\ removed_log' = Append(removed_log,
                             [fraction |-> Ladder[fi], removed |-> current_removed])
    /\ fi' = fi + 1
    /\ UNCHANGED <<aG, seed, mt, strategy, fractions, n_runs, original_size, all_lcc, all_diameter,
                   run, G_copy, all_nodes, local_nodes, current_removed, rank, apc>>
    /\ UNCHANGED <<heap, G_in, replay, boundaryVars, curveVars, swapVars, erVars>>

\* return results
AttackReturn ==
    /\ apc = "ladder"
    /\ fi > Len(Ladder)
    /\ apc' = "done"
    /\ UNCHANGED <<aG, seed, mt, strategy, fractions, n_runs, original_size, results, all_lcc,
                   all_diameter, run, G_copy, all_nodes, local_nodes, current_removed, fi,
                   rank, removed_log>>
    /\ UNCHANGED <<heap, G_in, replay, boundaryVars, curveVars, swapVars, erVars>>

AttackNext ==
    \/ AttackEmpty
    \/ AttackStartMulti
    \/ MultiRunStart
    \/ MultiRemoveNode
    \/ MultiSample
    \/ MultiRunEnd
    \/ MultiMean
    \/ AttackStartSingle
    \/ AttackSelectRandom
    \/ AttackSelectRanked
    \/ AttackSelectNone
    \/ RankDegree
    \/ RankPagerank
    \/ RankBetweenness
    \/ RankReturn
    \/ AttackRemoveNode
    \/ AttackSample
    \/ AttackReturn

SpecAttack == AttackInit /\ [][AttackNext]_vars

\* a second request makes the same call (a ladder the first call defaulted is
\* passed as that default): the caller keeps the first result, and numpy's
\* global generator is the one the first call left
AttackAgain ==
    /\ apc = "done"
    /\ calls = 0
    /\ calls' = 1
    /\ earlier' = <<results>>
    /\ heap' = <<heap[aG]>>
    /\ original_size' = 0
    /\ results' = EmptyResults
    /\ all_lcc' = <<>>
    /\ all_diameter' = <<>>
    /\ run' = 0
    /\ G_copy' = 0
    /\ all_nodes' = <<>>
    /\ local_nodes' = <<>>
    /\ current_removed' = 0
    /\ fi' = 0
    /\ rank' = NoRank
    /\ apc' = "start"
    /\ removed_log' = <<>>
    /\ UNCHANGED <<aG, seed, mt, strategy, fractions, n_runs>>
    /\ UNCHANGED <<G_in, boundaryVars, curveVars, swapVars, erVars>>

SpecAttackTwice == AttackInit /\ [][AttackNext \/ AttackAgain]_vars

(***************************************************************************)
(* The ranking functions called directly, with any limit k and with        *)
(* adaptive true or false.  Init is the call; the loop runs on the frame   *)
(* `rank` with the actions above, and the list returned is rank.removed.   *)
(***************************************************************************)
RankCalls ==
    [g : GraphsUpTo(RankMaxNodes),
     fn : RankingFunctions,
     k : 0..RankMaxK,
     adaptive : BOOLEAN]

RankInit ==
    /\ FirstCall
    /\ BoundaryIdle
    /\ \E call \in RankCalls :
          /\ heap = <<call.g>>
          /\ G_in = call.g
          /\ rank = [NoRank EXCEPT !.fn = call.fn, !.G = 1, !.k = call.k,
                                   !.adaptive = call.adaptive, !.direct = TRUE]
    /\ apc = "call"
    /\ aG = 0
    /\ strategy = ""
    /\ fractions = <<>>
    /\ n_runs = 0
    /\ seed = <<>>
    /\ mt = <<>>
    /\ original_size = 0
    /\ results = EmptyResults
    /\ all_lcc = <<>>
    /\ all_diameter = <<>>
    /\ run = 0
    /\ G_copy = 0
    /\ all_nodes = <<>>
    /\ local_nodes = <<>>
    /\ current_removed = 0
    /\ fi = 0
    /\ removed_log = <<>>
    /\ CurveIdle
    /\ SwapIdle
    /\ ErIdle

\* removed = [], G_copy = G.copy(), range(min(k, len(G)))
RankCall ==
    /\ apc = "call"
    /\ LET c == GraphCopy(heap, rank.G)
       IN /\ heap' = c.heap
          /\ rank' = [rank EXCEPT !.G_copy = c.ref, !.removed = <<>>,
                                  !.n = Min2(rank.k, Len(heap[rank.G].nodes)), !.i = 0]
    /\ apc' = "rank"
    /\ UNCHANGED <<aG, seed, mt, strategy, fractions, n_runs, original_size, results,
                   all_lcc, all_diameter, run, G_copy, all_nodes, local_nodes,
                   current_removed, fi, removed_log>>
    /\ UNCHANGED <<G_in, replay, boundaryVars, curveVars, swapVars, erVars>>

\* return removed
RankReturnDirect ==
    /\ apc = "rank"
    /\ rank.direct
    /\ rank.i >= rank.n \/ RankBreak
    /\ apc' = "ranked"
    /\ UNCHANGED <<aG, seed, mt, strategy, fractions, n_runs, original_size, results,
                   all_lcc, all_diameter, run, G_copy, all_nodes, local_nodes,
                   current_removed, fi, rank, removed_log>>
    /\ UNCHANGED <<heap, G_in, replay, boundaryVars, curveVars, swapVars, erVars>>

RankNext ==
    \/ RankCall
    \/ RankDegree
    \/ RankPagerank
    \/ RankBetweenness
    \/ RankReturnDirect

SpecRank == RankInit /\ [][RankNext]_vars

(***************************************************************************)
(* add_edges_by_effective_resistance.  Init is the call.  splu either      *)
(* returns a factorization or raises; rng.randrange draws any node.        *)
(***************************************************************************)
ErCalls ==
    [g : GraphsUpTo(ErMaxNodes) \cup BareGraphsUpTo(ErMaxNodes),
     k : 0..ErMaxK,
     max_candidates : 0..ErMaxCandidates,
     max_distance_km : {<<>>, <<DefaultMaxDistanceKm>>}]

\* the call, with arguments from callSet
ErInitFrom(callSet) ==
    /\ FirstCall
    /\ BoundaryIdle
    /\ \E call \in callSet :
          /\ heap = <<call.g>>
          /\ G_in = call.g
          /\ k = call.k
          /\ max_candidates = call.max_candidates
          /\ max_distance_km = call.max_distance_km
    /\ eG = 1
    /\ lcc = {}
    /\ H = 0
    /\ node_list = <<>>
    /\ lu = <<>>
    /\ candidates = <<>>
    /\ existing = {}
    /\ tries = 0
    /\ cand = <<>>
    /\ scored = <<>>
    /\ Hr = 0
    /\ added = <<>>
    /\ eret = <<>>
    /\ epc = "start"
    /\ fallback = FALSE
    /\ CurveIdle
    /\ SwapIdle
    /\ AttackIdle

ErInit == ErInitFrom(ErCalls)

\* if G.number_of_nodes() < 2: return G.copy(), []
ErEarlyReturn ==
    /\ epc = "start"
    /\ Len(heap[eG].nodes) < 2
    /\ LET c == GraphCopy(heap, eG)
       IN /\ heap' = c.heap
          /\ eret' = <<[graph |-> c.ref, added |-> <<>>]>>
    /\ epc' = "done"
    /\ UNCHANGED <<eG, k, max_candidates, max_distance_km, lcc, H, node_list, lu,
                   candidates, existing, tries, cand, scored, Hr, added, fallback>>
    /\ UNCHANGED <<G_in, replay, boundaryVars, curveVars, swapVars, attackVars>>

\* lcc = max(nx.connected_components(G), key=len); H = G.subgraph(lcc).copy()
ErRestrict ==
    /\ epc = "start"
    /\ Len(heap[eG].nodes) >= 2
    /\ lcc' = LargestComponentNodes(heap[eG])
    /\ LET c == SubgraphCopy(heap, eG, LargestComponentNodes(heap[eG]))
       IN /\ heap' = c.heap
          /\ H' = c.ref
          /\ node_list' = c.heap[c.ref].nodes
    /\ epc' = "factor"
    /\ UNCHANGED <<eG, k, max_candidates, max_distance_km, lu, candidates, existing,
                   tries, cand, scored, Hr, added, eret, fallback>>
    /\ UNCHANGED <<G_in, replay, boundaryVars, curveVars, swapVars, attackVars>>

\* _build_grounded_laplacian_lu returns; sample_candidate_edges starts
ErFactorize ==
    /\ epc = "factor"
    /\ lu' = <<"lu">>
    /\ candidates' = <<>>
    /\ existing' = heap[H].edges
    /\ tries' = 0
    /\ epc' = "sample"
    /\ UNCHANGED <<eG, k, max_candidates, max_distance_km, lcc, H, node_list, cand,
                   scored, Hr, added, eret, fallback>>
    /\ UNCHANGED <<heap, G_in, replay, boundaryVars, curveVars, swapVars, attackVars>>

\* the factorization raises: H_reinforced = reinforce_graph_simple(H, k,
\* max_distance_km), and `added` lists its edges that H does not have
ErFallback ==
    /\ epc = "factor"
    /\ LET c == GraphCopy(heap, H)
           reinforced == ReinforceGraphSimple(heap[H], k, max_distance_km)
       IN /\ heap' = [c.heap EXCEPT ![c.ref] = reinforced]
          /\ \E list \in SeqsOf(SimpleAdded(reinforced, heap[H])) :
                /\ added' = list
                /\ eret' = <<[graph |-> c.ref, added |-> list]>>
    /\ fallback' = TRUE
    /\ epc' = "done"
    /\ UNCHANGED <<eG, k, max_candidates, max_distance_km, lcc, H, node_list, lu,
                   candidates, existing, tries, cand, scored, Hr>>
    /\ UNCHANGED <<G_in, replay, boundaryVars, curveVars, swapVars, attackVars>>

\* the loop condition without the cap on tries
SamplingUntilFull == Len(candidates) < max_candidates

\* while len(candidates) < max_candidates and tries < max_tries
SamplingGoesOn ==
    /\ Len(candidates) < max_candidates
    /\ tries < max_candidates * MaxTriesFactor

\* one iteration of the sampling loop
ErSampleTry ==
    /\ epc = "sample"
    /\ SamplingGoesOn
    /\ tries' = tries + 1
    /\ \E u, v \in Range(heap[H].nodes) :
          LET d == GeoDistKm(heap[H], u, v)
          IN IF u = v \/ {u, v} \in existing \/ TooFar(max_distance_km, d)
             THEN UNCHANGED <<candidates, existing>>
             ELSE /\ candidates' = Append(candidates, [u |-> u, v |-> v, d |-> d])
                  /\ existing' = existing \cup {{u, v}}
    /\ UNCHANGED <<eG, k, max_candidates, max_distance_km, lcc, H, node_list, lu, cand,
                   scored, Hr, added, eret, epc, fallback>>
    /\ UNCHANGED <<heap, G_in, replay, boundaryVars, curveVars, swapVars, attackVars>>

\* return candidates, which the caller binds to cand
ErSampleReturn ==
    /\ epc = "sample"
    /\ ~SamplingGoesOn
    /\ cand' = candidates
    /\ candidates' = <<>>
    /\ existing' = {}
    /\ tries' = 0
    /\ epc' = "score"
    /\ UNCHANGED <<eG, k, max_candidates, max_distance_km, lcc, H, node_list, lu, scored,
                   Hr, added, eret, fallback>>
    /\ UNCHANGED <<heap, G_in, replay, boundaryVars, curveVars, swapVars, attackVars>>

\* the scoring loop and scored.sort
ErScore ==
    /\ epc = "score"
    /\ scored' \in SortedByReff(ScoreAll(heap[H], cand))
    /\ epc' = "add"
    /\ UNCHANGED <<eG, k, max_candidates, max_distance_km, lcc, H, node_list, lu,
                   candidates, existing, tries, cand, Hr, added, eret, fallback>>
    /\ UNCHANGED <<heap, G_in, replay, boundaryVars, curveVars, swapVars, attackVars>>

\* Hr = H.copy(); the loop over scored[:k]; return Hr, added
ErAdd ==
    /\ epc = "add"
    /\ LET c == GraphCopy(heap, H)
           top == FirstOf(scored, k)
       IN /\ heap' = [c.heap EXCEPT ![c.ref] = AddTop(c.heap[c.ref], top, 1)]
          /\ Hr' = c.ref
          /\ added' = AddedTop(top)
          /\ eret' = <<[graph |-> c.ref, added |-> AddedTop(top)]>>
    /\ epc' = "done"
    /\ UNCHANGED <<eG, k, max_candidates, max_distance_km, lcc, H, node_list, lu,
                   candidates, existing, tries, cand, scored, fallback>>
    /\ UNCHANGED <<G_in, replay, boundaryVars, curveVars, swapVars, attackVars>>

ErNext ==
    \/ ErEarlyReturn
    \/ ErRestrict
    \/ ErFactorize
    \/ ErFallback
    \/ ErSampleTry
    \/ ErSampleReturn
    \/ ErScore
    \/ ErAdd

SpecEr == ErInit /\ [][ErNext]_vars

(***************************************************************************)
(* reinforce_graph_schneider: the largest component of G is copied and     *)
(* handed to optimize_schneider_fast with fracs = np.linspace(0, 0.3, 21)  *)
(* and prefilter=True; what it returns, or raises, is what the wrapper     *)
(* returns or raises.  max() of the empty sequence of components raises    *)
(* ValueError.                                                             *)
(***************************************************************************)
WrapperCalls ==
    [g : {h \in GraphsUpTo(SwapMaxNodes) : Cardinality(h.edges) <= LoopMaxEdges},
     max_trials : 0..SwapMaxTrials,
     patience : 0..SwapMaxPatience]

WrapperInit ==
    /\ FirstCall
    /\ BoundaryIdle
    /\ \E call \in WrapperCalls :
          /\ heap = <<call.g>>
          /\ G_in = call.g
          /\ max_trials = call.max_trials
          /\ patience = call.patience
    /\ prefilter = TRUE
    /\ fracs = DefaultFracs
    /\ min_delta_R = DefaultMinDelta
    /\ G = 0
    /\ Gr = 0
    /\ order = <<>>
    /\ deg = <<>>
    /\ R_best = [num |-> 0, den |-> 1]
    /\ edges = {}
    /\ accepted = 0
    /\ no_improve = 0
    /\ r_evals = 0
    /\ t = <<>>
    /\ e1 = <<>>
    /\ e2 = <<>>
    /\ vi = 0
    /\ best_local = <<>>
    /\ info = <<>>
    /\ pc = "wrapper"
    /\ sampled = 0
    /\ exit_by = ""
    /\ evals = <<>>
    /\ CurveIdle
    /\ AttackIdle
    /\ ErIdle

\* lcc = max(nx.connected_components(G), key=len) on the graph without nodes
WrapperRaise ==
    /\ pc = "wrapper"
    /\ Len(heap[1].nodes) = 0
    /\ pc' = "raised"
    /\ UNCHANGED <<swapInputs, Gr, order, deg, R_best, edges, accepted, no_improve,
                   r_evals, t, e1, e2, vi, best_local, info, sampled, exit_by, evals>>
    /\ UNCHANGED <<heap, G_in, replay, boundaryVars, curveVars, attackVars, erVars>>

\* G_lcc = G.subgraph(lcc).copy(); optimize_schneider_fast(G_lcc, ...)
WrapperRestrict ==
    /\ pc = "wrapper"
    /\ Len(heap[1].nodes) # 0
    /\ LET c == SubgraphCopy(heap, 1, LargestComponentNodes(heap[1]))
       IN /\ heap' = c.heap
          /\ G' = c.ref
    /\ pc' = "start"
    /\ UNCHANGED <<max_trials, patience, min_delta_R, prefilter, fracs, Gr, order, deg,
                   R_best, edges, accepted, no_improve, r_evals, t, e1, e2, vi,
                   best_local, info, sampled, exit_by, evals>>
    /\ UNCHANGED <<G_in, replay, boundaryVars, curveVars, attackVars, erVars>>

WrapperNext == WrapperRaise \/ WrapperRestrict

(***************************************************************************)
(* The same call made twice, to compare what a run that fell back returns  *)
(* with what a run that did not returns: a direct call of a ranking        *)
(* function, or a call of add_edges_by_effective_resistance.  The caller   *)
(* keeps what the first call returned; `fallback` marks the runs in which  *)
(* an except branch replaced PageRank by the degrees, or the factorization *)
(* by the hub pairing.                                                     *)
(***************************************************************************)
FallbackErCalls ==
    [g : GraphsUpTo(FallbackMaxNodes) \cup BareGraphsUpTo(FallbackMaxNodes),
     k : 0..ErMaxK,
     max_candidates : 0..FallbackMaxCandidates,
     max_distance_km : {<<>>, <<DefaultMaxDistanceKm>>}]

\* what add_edges_by_effective_resistance returned: the graph and the list
ErOutput == [graph |-> heap[eret[1].graph], added |-> eret[1].added]

RankAgain ==
    /\ apc = "ranked"
    /\ calls = 0
    /\ calls' = 1
    /\ earlier' = <<[out |-> rank.removed, fallback |-> rank.fallback]>>
    /\ heap' = <<heap[rank.G]>>
    /\ rank' = [rank EXCEPT !.G_copy = 0, !.removed = <<>>, !.n = 0, !.i = 0,
                            !.fallback = FALSE]
    /\ apc' = "call"
    /\ UNCHANGED <<aG, seed, mt, strategy, fractions, n_runs, original_size, results,
                   all_lcc, all_diameter, run, G_copy, all_nodes, local_nodes,
                   current_removed, fi, removed_log>>
    /\ UNCHANGED <<G_in, boundaryVars, curveVars, swapVars, erVars>>

ErAgain ==
    /\ epc = "done"
    /\ calls = 0
    /\ calls' = 1
    /\ earlier' = <<[out |-> ErOutput, fallback |-> fallback]>>
    /\ heap' = <<heap[eG]>>
    /\ lcc' = {}
    /\ H' = 0
    /\ node_list' = <<>>
    /\ lu' = <<>>
    /\ candidates' = <<>>
    /\ existing' = {}
    /\ tries' = 0
    /\ cand' = <<>>
    /\ scored' = <<>>
    /\ Hr' = 0
    /\ added' = <<>>
    /\ eret' = <<>>
    /\ epc' = "start"
    /\ fallback' = FALSE
    /\ UNCHANGED <<eG, k, max_candidates, max_distance_km>>
    /\ UNCHANGED <<G_in, boundaryVars, curveVars, swapVars, attackVars>>

FallbackInit == RankInit \/ ErInitFrom(FallbackErCalls)

FallbackNext == RankNext \/ RankAgain \/ ErNext \/ ErAgain

SpecFallback == FallbackInit /\ [][FallbackNext]_vars

(***************************************************************************)
(* Any one call of the three entry points.                                 *)
(***************************************************************************)
CallsInit == SwapInit \/ WrapperInit \/ AttackInit \/ ErInit

CallsNext == SwapNext \/ WrapperNext \/ AttackNext \/ ErNext

SpecCalls == CallsInit /\ [][CallsNext]_vars




(***************************************************************************)
(* add_edges_by_effective_resistance run to its end.  The interpreter      *)
(* executes the next statement of a call as long as there is one: weak     *)
(* fairness of the steps of the call.                                      *)
(***************************************************************************)
SamplingCalls ==
    [g : GraphsUpTo(SampleMaxNodes) \cup BareGraphsUpTo(SampleMaxNodes),
     k : {1},
     max_candidates : 0..SampleMaxCandidates,
     max_distance_km : {<<>>, <<DefaultMaxDistanceKm>>}]

SpecErLive == ErInitFrom(SamplingCalls) /\ [][ErNext]_vars /\ WF_vars(ErNext)

(***************************************************************************)
(* effective_resistance called on a factorization.  Init is the state      *)
(* after _build_grounded_laplacian_lu returned for a connected graph H     *)
(* with node_list = list(H.nodes()); the action is one call, for any two   *)
(* nodes of node_list.                                                     *)
(***************************************************************************)
\* the connected graphs of the model: the largest components of its graphs
ConnectedGraphs ==
    {Subgraph(g, LargestComponentNodes(g)) : g \in GraphsUpTo(ErMaxNodes)}

ReffInit ==
    /\ FirstCall
    /\ BoundaryIdle
    /\ \E h \in ConnectedGraphs :
          /\ Len(h.nodes) >= 2
          /\ heap = <<h>>
          /\ G_in = h
          /\ node_list = h.nodes
    /\ H = 1
    /\ lu = <<"lu">>
    /\ eG = 0
    /\ k = 0
    /\ max_candidates = 0
    /\ max_distance_km = <<>>
    /\ lcc = {}
    /\ candidates = <<>>
    /\ existing = {}
    /\ tries = 0
    /\ cand = <<>>
    /\ scored = <<>>
    /\ Hr = 0
    /\ added = <<>>
    /\ eret = <<>>
    /\ epc = "reff"
    /\ fallback = FALSE
    /\ CurveIdle
    /\ SwapIdle
    /\ AttackIdle

\* reff = effective_resistance(lu, idx, g, u, v)
ReffCall ==
    /\ epc = "reff"
    /\ scored = <<>>
    /\ \E u, v \in Range(node_list) :
          scored' = <<[reff |-> EffectiveResistance(heap[H], u, v),
                       u |-> u, v |-> v, d |-> <<>>]>>
    /\ UNCHANGED <<eG, k, max_candidates, max_distance_km, lcc, H, node_list, lu,
                   candidates, existing, tries, cand, Hr, added, eret, epc, fallback>>
    /\ UNCHANGED <<heap, G_in, replay, boundaryVars, curveVars, swapVars, attackVars>>

SpecReff == ReffInit /\ [][ReffCall]_vars

(***************************************************************************)
(* routes.py: POST /simulate and GET /defense/impact-custom.  Init is the   *)
(* request reaching the handler; the loaded graph has no removal recorded.  *)
(* The calls of add_edges_by_effective_resistance and of simulate_attack    *)
(* run as the actions of those functions.  The graphs get_active_graph and  *)
(* filter_graph_by_bbox return are dropped once G_lcc is built, and         *)
(* get_stats only reads.                                                    *)
(***************************************************************************)
\* a query parameter that was not given
NotGiven == <<>>

\* any([minLat, maxLat, minLon, maxLon]): a parameter given and not 0
AnyGiven(q) ==
    \E key \in {"minLat", "maxLat", "minLon", "maxLon"} :
        q[key] # NotGiven /\ q[key][1] # 0

\* bbox = {"minLat": -10, "maxLat": 30, "minLon": 90, "maxLon": 150}
SoutheastAsia ==
    [minLat |-> <<-10>>, maxLat |-> <<30>>, minLon |-> <<90>>, maxLon |-> <<150>>]

\* in_bbox(lat, lon)
InBbox(bbox, lat, lon) ==
    /\ ~(bbox.minLat # NotGiven /\ lat < bbox.minLat[1])
    /\ ~(bbox.maxLat # NotGiven /\ lat > bbox.maxLat[1])
    /\ ~(bbox.minLon # NotGiven /\ lon < bbox.minLon[1])
    /\ ~(bbox.maxLon # NotGiven /\ lon > bbox.maxLon[1])

\* filter_graph_by_bbox(g, bbox), bbox not None
FilterGraphByBbox(g, bbox) ==
    LET nodes_in_bbox ==
            {x \in Range(g.nodes) :
                /\ HasKey(g.nattr[x], "lat")
                /\ HasKey(g.nattr[x], "lon")
                /\ -90 <= AttrOf(g.nattr[x], "lat")
                /\ AttrOf(g.nattr[x], "lat") <= 90
                /\ -180 <= AttrOf(g.nattr[x], "lon")
                /\ AttrOf(g.nattr[x], "lon") <= 180
                /\ InBbox(bbox, AttrOf(g.nattr[x], "lat"), AttrOf(g.nattr[x], "lon"))}
    IN Subgraph(g, nodes_in_bbox)

\* the graph the handler works on: the active graph, filtered by the bbox of
\* the request or by the default one
Filtered ==
    LET act == RemoveEdgesFrom(RemoveNodesFrom(heap[graph], removed_nodes), removed_edges)
        q == req[1]
    IN IF AnyGiven(q)
       THEN FilterGraphByBbox(act, [minLat |-> q.minLat, maxLat |-> q.maxLat,
                                    minLon |-> q.minLon, maxLon |-> q.maxLon])
       ELSE FilterGraphByBbox(act, SoutheastAsia)

\* the strategy names a request may carry: the names of simulate_attack, a
\* name of /simulate and the empty string
RequestNames ==
    {"random_attack", "degree_targeted_attack", "pagerank_targeted_attack",
     "betweenness_targeted_attack", "degree", ""}

\* the list /simulate checks the name against
SimulateNames == {"random", "degree", "betweenness"}

\* the bounding boxes of the requests: none, one that is given as 0 only, and
\* one that holds the airports of the model
RequestBoxes ==
    {[minLat |-> NotGiven, maxLat |-> NotGiven, minLon |-> NotGiven, maxLon |-> hi] :
        hi \in {NotGiven, <<15 * RouteMaxNodes>>}}
    \cup {[minLat |-> <<0>>, maxLat |-> NotGiven, minLon |-> NotGiven, maxLon |-> NotGiven]}

Requests ==
    {[endpoint |-> "simulate", strategy |-> name] :
        name \in RequestNames \cup SimulateNames}
    \cup {[endpoint |-> "defense_impact_custom", attack_strategy |-> name,
           k_hubs |-> hubs, max_distance_km |-> 4000,
           minLat |-> q.minLat, maxLat |-> q.maxLat,
           minLon |-> q.minLon, maxLon |-> q.maxLon] :
              name \in RequestNames \ {""}, hubs \in 0..RouteMaxHubs, q \in RequestBoxes}

\* fractions = [round(i * 0.05, 2) for i in range(11)]
DefenseFractions == [i \in 1..11 |-> [num |-> i - 1, den |-> 20]]

RouteInit ==
    /\ FirstCall
    /\ \/ \E g \in GraphsUpTo(RouteMaxNodes) :
             /\ heap = <<g>>
             /\ G_in = g
             /\ graph = 1
       \/ /\ heap = <<>>
          /\ G_in = EmptyGraph
          /\ graph = 0
    /\ removed_nodes = {}
    /\ removed_edges = {}
    /\ app_ret = <<>>
    /\ active = 0
    /\ app_op = <<>>
    /\ explicit = {}
    /\ \E r \in Requests : req = <<r>>
    /\ rpc = "request"
    /\ G_lcc = 0
    /\ G_reinforced = 0
    /\ passed = <<>>
    /\ StatsIdle
    /\ CurveIdle
    /\ SwapIdle
    /\ AttackIdle
    /\ ErIdle

\* if app_state.graph is None: raise HTTPException(400, "Graph not loaded")
RouteNotLoaded ==
    /\ rpc = "request"
    /\ graph = 0
    /\ rpc' = "rejected"
    /\ UNCHANGED <<req, G_lcc, G_reinforced, passed>>
    /\ UNCHANGED <<heap, G_in, replay, statsVars, appVars, curveVars, swapVars, attackVars,
                   erVars>>

\* /simulate: if req.strategy not in [...]: raise HTTPException(400, "Invalid strategy")
SimulateInvalid ==
    /\ rpc = "request"
    /\ graph # 0
    /\ req[1].endpoint = "simulate"
    /\ req[1].strategy \notin SimulateNames
    /\ rpc' = "rejected"
    /\ UNCHANGED <<req, G_lcc, G_reinforced, passed>>
    /\ UNCHANGED <<heap, G_in, replay, statsVars, appVars, curveVars, swapVars, attackVars,
                   erVars>>

\* /simulate: G = app_state.get_active_graph(), then the call
\* simulate_attack(G, req.strategy, req.k, seed=req.seed, adaptive=req.adaptive),
\* which raises TypeError: simulate_attack has no parameter `adaptive`
SimulateCall ==
    /\ rpc = "request"
    /\ graph # 0
    /\ req[1].endpoint = "simulate"
    /\ req[1].strategy \in SimulateNames
    /\ LET c == GraphCopy(heap, graph)
       IN /\ heap' = [c.heap EXCEPT ![c.ref] =
                         RemoveEdgesFrom(RemoveNodesFrom(@, removed_nodes), removed_edges)]
          /\ active' = c.ref
    /\ passed' = Append(passed, req[1].strategy)
    /\ rpc' = "type_error"
    /\ UNCHANGED <<req, G_lcc, G_reinforced>>
    /\ UNCHANGED <<graph, removed_nodes, removed_edges, app_ret, app_op, explicit>>
    /\ UNCHANGED <<G_in, replay, statsVars, curveVars, swapVars, attackVars, erVars>>

\* /defense/impact-custom: if len(G) == 0: raise HTTPException(400, "No nodes in region")
DefenseNoNodes ==
    /\ rpc = "request"
    /\ graph # 0
    /\ req[1].endpoint = "defense_impact_custom"
    /\ Len(Filtered.nodes) = 0
    /\ rpc' = "rejected"
    /\ UNCHANGED <<req, G_lcc, G_reinforced, passed>>
    /\ UNCHANGED <<heap, G_in, replay, statsVars, appVars, curveVars, swapVars, attackVars,
                   erVars>>

\* G_lcc = G.subgraph(get_lcc(G)).copy(), then the call
\* add_edges_by_effective_resistance(G_lcc, k=k_hubs,
\*     max_candidates=min(20000, k_hubs * 100), max_distance_km=max_distance_km, seed=123)
DefenseReinforce ==
    /\ rpc = "request"
    /\ graph # 0
    /\ req[1].endpoint = "defense_impact_custom"
    /\ Len(Filtered.nodes) # 0
    /\ heap' = Append(heap, Subgraph(Filtered, GetLcc(Filtered)))
    /\ G_lcc' = Len(heap) + 1
    /\ eG' = Len(heap) + 1
    /\ k' = req[1].k_hubs
    /\ max_candidates' = Min2(20000, req[1].k_hubs * 100)
    /\ max_distance_km' = <<req[1].max_distance_km>>
    /\ epc' = "start"
    /\ rpc' = "ter"
    /\ UNCHANGED <<lcc, H, node_list, lu, candidates, existing, tries, cand, scored, Hr,
                   added, eret, fallback>>
    /\ UNCHANGED <<req, G_reinforced, passed>>
    /\ UNCHANGED <<G_in, replay, statsVars, appVars, curveVars, swapVars, attackVars>>

\* the call simulate_attack(g, attack_strategy, fractions=fractions, n_runs=1)
DefenseAttack(g) ==
    /\ aG' = g
    /\ strategy' = req[1].attack_strategy
    /\ fractions' = <<DefenseFractions>>
    /\ n_runs' = 1
    /\ seed' = <<>>
    /\ mt' = <<>>
    /\ original_size' = 0
    /\ results' = EmptyResults
    /\ all_lcc' = <<>>
    /\ all_diameter' = <<>>
    /\ run' = 0
    /\ G_copy' = 0
    /\ all_nodes' = <<>>
    /\ local_nodes' = <<>>
    /\ current_removed' = 0
    /\ fi' = 0
    /\ rank' = NoRank
    /\ apc' = "start"
    /\ removed_log' = <<>>
    /\ passed' = Append(passed, req[1].attack_strategy)

\* G_reinforced, added_edges_list = <what the call returned>, then
\* attack_original = simulate_attack(G_lcc, ...)
DefenseAttackOriginal ==
    /\ rpc = "ter"
    /\ epc = "done"
    /\ G_reinforced' = eret[1].graph
    /\ DefenseAttack(G_lcc)
    /\ rpc' = "attack_original"
    /\ UNCHANGED <<req, G_lcc>>
    /\ UNCHANGED <<heap, G_in, replay, statsVars, appVars, curveVars, swapVars, erVars>>

\* attack_reinforced = simulate_attack(G_reinforced, ...)
DefenseAttackReinforced ==
    /\ rpc = "attack_original"
    /\ apc = "done"
    /\ DefenseAttack(G_reinforced)
    /\ rpc' = "attack_reinforced"
    /\ UNCHANGED <<req, G_lcc, G_reinforced>>
    /\ UNCHANGED <<heap, G_in, replay, statsVars, appVars, curveVars, swapVars, erVars>>

\* return {...}
DefenseRespond ==
    /\ rpc = "attack_reinforced"
    /\ apc = "done"
    /\ rpc' = "response"
    /\ UNCHANGED <<req, G_lcc, G_reinforced, passed>>
    /\ UNCHANGED <<heap, G_in, replay, statsVars, appVars, curveVars, swapVars, attackVars,
                   erVars>>

\* the statements of simulate_attack a call with n_runs=1 on a graph with
\* nodes can reach
SingleRunNext ==
    \/ AttackStartSingle
    \/ AttackSelectRandom
    \/ AttackSelectRanked
    \/ AttackSelectNone
    \/ RankDegree
    \/ RankPagerank
    \/ RankBetweenness
    \/ RankReturn
    \/ AttackRemoveNode
    \/ AttackSample
    \/ AttackReturn

RouteNext ==
    \/ RouteNotLoaded
    \/ SimulateInvalid
    \/ SimulateCall
    \/ DefenseNoNodes
    \/ DefenseReinforce
    \/ DefenseAttackOriginal
    \/ DefenseAttackReinforced
    \/ DefenseRespond
    \/ ErNext
    \/ SingleRunNext

SpecRoutes == RouteInit /\ [][RouteNext]_vars

(***************************************************************************)
(* C2.  For every graph, every removal order that is a permutation of its  *)
(* nodes and every k in 0..n, the value the add-back pass records for      *)
(* "k nodes removed" is the size of the largest connected component of the *)
(* graph with the first k nodes of the order deleted, as soon as the pass  *)
(* has recorded it; and each returned sample is that size over n for the   *)
(* removal count clip(rint(f * n), 0, n) of its fraction.                  *)
(***************************************************************************)
C2_CurveEqualsBruteForce ==
    LET n == Len(cG.nodes)
    IN /\ (cpc \in {"outer", "done"} /\ n > 0) =>
             \A m \in (IF ct = 0 THEN {n} ELSE (n - ct)..n) :
                cst.lcc_after_k[m] = BruteLcc(cG, FirstK(cOrder, m))
       /\ (cpc = "done" /\ n > 0) =>
             /\ Len(cret) = Len(cFracs)
             /\ \A i \in 1..Len(cFracs) :
                   cret[i] = [num |-> BruteLcc(cG, FirstK(cOrder, KsOf(cFracs, n)[i])),
                              den |-> n]

\* a finished pass on a connected 3-node graph that the removal order splits,
\* sampled at two fractions with different values
C2_Witness ==
    /\ cpc = "done"
    /\ Len(cG.nodes) = CurveMaxNodes
    /\ cst.lcc_after_k[0] = CurveMaxNodes
    /\ cst.lcc_after_k[1] = 1
    /\ Len(cret) = 2
    /\ cret[1].num > cret[2].num
    /\ cret[2].num > 0

(***************************************************************************)
(* Properties of optimize_schneider_fast.                                  *)
(***************************************************************************)
\* the working graph exists
Working == pc \notin {"idle", "start"}

\* the loop has been left
LoopEnded == pc \in {"info", "done", "raised"}

\* the edge set the edge list `edges` denotes
EdgeSetOf(list) == {{a[1], a[2]} : a \in list}

(***************************************************************************)
(* C1.  Every double-edge swap preserves the degree of every node: in      *)
(* every state of the optimization, after any sequence of accepted and     *)
(* rejected trials, each node of the working graph has the degree it had   *)
(* in the input graph.                                                     *)
(***************************************************************************)
C1_DegreesPreserved ==
    Working =>
        \A u \in Range(G_in.nodes) : Degree(heap[Gr], u) = Degree(G_in, u)

\* a trial boundary after an accepted swap: the working graph differs from the input
C1_Witness ==
    /\ pc = "loop"
    /\ accepted >= 1
    /\ heap[Gr].edges # G_in.edges

(***************************************************************************)
(* C3.  A trial changes the edge set of the working graph if and only if   *)
(* at least one recombination was evaluated and the highest evaluated R    *)
(* exceeds R_best + min_delta_R.  Then the edge set becomes the edge set   *)
(* before the trial minus {e1, e2} plus the two edges of a recombination   *)
(* with the highest R, accepted grows by one and no_improve becomes 0.     *)
(* Otherwise the edge set is the one before the trial, and no_improve      *)
(* grows by exactly one.                                                   *)
(***************************************************************************)
C3_TrialStep ==
    LET E == heap[Gr].edges
        Eafter == heap'[Gr'].edges
        best == {x \in Range(evals) :
                    \A y \in Range(evals) : x.R.num * y.R.den >= y.R.num * x.R.den}
        improves ==
            /\ evals # <<>>
            /\ \E x \in best :
                  (x.R.num - R_best.num) * min_delta_R.den > min_delta_R.num * x.R.den
    IN /\ (pc = "loop" /\ pc' = "loop") =>
             /\ Eafter = E
             /\ no_improve' = no_improve + 1
             /\ accepted' = accepted
       /\ (pc = "decide" /\ pc' = "loop") =>
             /\ E = EdgeSetOf(edges)
             /\ IF improves
                THEN /\ Eafter # E
                     /\ \E x \in best :
                           Eafter = (E \ {{e1[1], e1[2]}, {e2[1], e2[2]}})
                                    \cup {{x.ne1[1], x.ne1[2]}, {x.ne2[1], x.ne2[2]}}
                     /\ accepted' = accepted + 1
                     /\ no_improve' = 0
                ELSE /\ Eafter = E
                     /\ no_improve' = no_improve + 1
                     /\ accepted' = accepted

C3_EdgeSetChangesIffImproved == [][C3_TrialStep]_vars

\* a trial that evaluated both recombinations and was accepted
C3_Witness ==
    /\ pc = "loop"
    /\ accepted >= 1
    /\ no_improve = 0
    /\ Len(evals) = 2

(***************************************************************************)
(* C4.  The loop stops when max_trials trials have been executed, when the *)
(* consecutive non-improving trials number more than patience, or when     *)
(* fewer than two edges remain, and runs a further trial otherwise.        *)
(***************************************************************************)
\* the claim as stated: the loop has ended only if one of its three conditions holds
C4_StopsOnlyWhenPatienceExceeded ==
    LoopEnded =>
        \/ sampled = max_trials
        \/ no_improve > patience
        \/ NumberOfEdges(heap[Gr]) < 2

\* one of the three stop conditions of the code holds
StopCondition ==
    \/ sampled = max_trials
    \/ no_improve >= patience
    \/ NumberOfEdges(heap[Gr]) < 2

\* a measure every step of the run decreases: 8 per trial still allowed, plus
\* the position inside the trial
Measure ==
    LET iters == IF t = <<>> THEN 0 ELSE t[1]
        stage == CASE pc = "start" -> 4
                   [] pc = "first" -> 3
                   [] pc = "loop" -> 2
                   [] pc = "variant" /\ vi = 1 -> 7
                   [] pc = "applied" /\ vi = 1 -> 6
                   [] pc = "variant" /\ vi = 2 -> 5
                   [] pc = "applied" /\ vi = 2 -> 4
                   [] pc = "decide" -> 3
                   [] pc = "info" -> 1
                   [] OTHER -> 0
    IN 8 * (max_trials + 1 - iters) + stage

C4_StopsExactly ==
    /\ Measure >= 0
    /\ sampled <= max_trials
    /\ LoopEnded => StopCondition
    /\ (pc = "loop" /\ StopCondition) => ~ENABLED (SwapSample \/ SwapSampleDegenerate)
    /\ (pc = "loop" /\ ~StopCondition) =>
          /\ ENABLED (SwapSample \/ SwapSampleDegenerate)
          /\ ~ENABLED (SwapBreak \/ SwapExhausted)
    /\ pc = "variant" => ENABLED (SwapVariantSkip \/ SwapVariantApply)
    /\ pc = "decide" => ENABLED (SwapAccept \/ SwapReject)
    /\ pc = "info" => ENABLED (SwapReturn \/ SwapRaise)

(***************************************************************************)
(* C4 as amended.  The loop always terminates (every step decreases a      *)
(* non-negative measure and no statement of the loop is ever stuck), and it *)
(* stops exactly when max_trials trials have been executed, when the       *)
(* consecutive non-improving trials have reached patience, or when fewer   *)
(* than two edges remain; a further trial is executed whenever none of the *)
(* three holds.                                                            *)
(***************************************************************************)
C4_TerminatesAndStopsExactly == []C4_StopsExactly /\ [][Measure' < Measure]_vars

\* the loop was left by the patience test with trials still allowed and the
\* counter equal to, not above, patience
C4_Witness ==
    /\ LoopEnded
    /\ exit_by = "patience"
    /\ patience > 0
    /\ no_improve = patience
    /\ sampled < max_trials
    /\ NumberOfEdges(heap[Gr]) >= 2

(***************************************************************************)
(* C5.  info.trials_done is the number of loop iterations that sampled an  *)
(* edge pair, however the loop ended, zero trials included.                *)
(***************************************************************************)
C5_TrialsDoneCountsTrials ==
    /\ pc # "raised"
    /\ pc = "done" => info[1].trials_done = sampled

(***************************************************************************)
(* C6.  info.stopped_by_patience is true exactly when the loop ended       *)
(* because the patience test fired, and false when max_trials was used up  *)
(* or fewer than two edges remained.                                       *)
(***************************************************************************)
C6_StoppedByPatienceExact ==
    pc = "done" => (info[1].stopped_by_patience <=> exit_by = "patience")

CurveLengths ==
    {Len(results.fraction_removed), Len(results.relative_lcc_size), Len(results.diameter)}

NonDecreasingInUnit(ladder) ==
    \A i \in 1..Len(ladder) :
        /\ 0 <= ladder[i].num /\ ladder[i].num <= ladder[i].den
        /\ i > 1 => ladder[i - 1].num * ladder[i].den <= ladder[i].num * ladder[i - 1].den

RemovedIsFloor ==
    \A i \in 1..Len(removed_log) :
        removed_log[i].removed =
            (removed_log[i].fraction.num * original_size) \div removed_log[i].fraction.den

C10_RemovedEqualsFloor ==
    (/\ apc \notin {"idle", "start"}
     /\ Len(G_in.nodes) > 0
     /\ strategy \in RankingFunctions \cup {"random_attack"}
     /\ NonDecreasingInUnit(Ladder)) => RemovedIsFloor

\* the same statement for the three strategies that rank every node
C10_RemovedEqualsFloorButBetweenness ==
    (/\ apc \notin {"idle", "start"}
     /\ Len(G_in.nodes) > 0
     /\ strategy \in {"random_attack", "degree_targeted_attack", "pagerank_targeted_attack"}
     /\ NonDecreasingInUnit(Ladder)) => RemovedIsFloor

(***************************************************************************)
(* C8.  simulate_attack, add_edges_by_effective_resistance and             *)
(* optimize_schneider_fast never change the graph object the caller        *)
(* passed: at every point of every call, early returns and the fallback    *)
(* included, its nodes, its edges and the attributes of both are what they *)
(* were at the call.  The same holds for the ranking functions: while one  *)
(* runs, the graph simulate_attack handed to it is still equal to the      *)
(* caller's.                                                               *)
(***************************************************************************)
C8_CallerGraphUntouched ==
    /\ heap # <<>> => heap[1] = G_in
    /\ apc = "rank" => heap[G_copy] = G_in

\* the fallback of the reinforcement has returned a graph with backup edges
C8_Witness ==
    /\ epc = "done"
    /\ fallback
    /\ added # <<>>
    /\ heap[eret[1].graph] # G_in
    /\ heap[eG] = G_in

(***************************************************************************)
(* C11.  Every relative_lcc_size sample of simulate_attack is the size of  *)
(* the largest connected component of the working graph at that point      *)
(* divided by N0, the number of nodes of the input graph, never by the     *)
(* number of nodes left.  In the multi-run branch this holds for every     *)
(* sample of every run, and the value returned for a fraction is the mean  *)
(* of these samples: their sum over N0 times their number.                 *)
(***************************************************************************)
\* the sample the claim prescribes, computed by exhaustive search
LccOverN0 == [num |-> BruteLcc(heap[G_copy], {}), den |-> Len(G_in.nodes)]

C11_SampleStep ==
    /\ (apc = "ladder" /\ fi' = fi + 1) =>
          results'.relative_lcc_size = Append(results.relative_lcc_size, LccOverN0)
    /\ (apc = "mladder" /\ fi' = fi + 1) =>
          all_lcc'[Ladder[fi]] = Append(all_lcc[Ladder[fi]], LccOverN0)
    /\ (apc = "runs" /\ apc' = "done") =>
          \A i \in 1..Len(Ladder) :
              results'.relative_lcc_size[i] =
                  [num |-> SumNum(all_lcc[Ladder[i]]),
                   den |-> Len(G_in.nodes) * Len(all_lcc[Ladder[i]])]

C11_SamplesOverN0 == [][C11_SampleStep]_vars

\* a sample taken after a removal that left the working graph connected: over
\* the nodes left it would be 1, over N0 it is less
C11_Witness ==
    /\ apc = "ladder"
    /\ \E i \in 1..Len(removed_log) :
          /\ removed_log[i].removed > 0
          /\ removed_log[i].removed < Len(G_in.nodes)
          /\ results.relative_lcc_size[i] =
                 [num |-> Len(G_in.nodes) - removed_log[i].removed,
                  den |-> Len(G_in.nodes)]

(***************************************************************************)
(* C12.  simulate_attack with the random strategy is deterministic given   *)
(* a seed: two invocations with the same graph, ladder, n_runs and the     *)
(* same non-null seed return identical curves, and run i of a multi-run    *)
(* removes the nodes in the ordering the generator gives for seed + i.     *)
(***************************************************************************)
C12_SeededRandomIsDeterministic ==
    /\ (/\ calls = 1
        /\ apc = "done"
        /\ strategy = "random_attack"
        /\ seed # <<>>) => results = earlier[1]
    /\ (/\ apc = "mladder"
        /\ seed # <<>>) =>
            /\ <<seed[1] + run, heap[aG].nodes>> \in DOMAIN mt
            /\ all_nodes = mt[<<seed[1] + run, heap[aG].nodes>>]

\* the second of two seeded two-run calls has returned; a removal was sampled
\* on a graph where the ordering decides the curve
C12_Witness ==
    /\ calls = 1
    /\ apc = "done"
    /\ strategy = "random_attack"
    /\ seed # <<>>
    /\ n_runs = 2
    /\ results = earlier[1]
    /\ Cardinality(G_in.edges) = 2
    /\ \E i \in 1..Len(removed_log) : removed_log[i].removed = 1

(***************************************************************************)
(* C13.  degree_targeted_attack(G, k, adaptive=False) returns min(k, |V|)  *)
(* pairwise distinct nodes, in non-increasing order of their degree in G.  *)
(***************************************************************************)
C13_StaticDegreeRanking ==
    (/\ apc = "ranked"
     /\ rank.fn = "degree_targeted_attack"
     /\ ~rank.adaptive) =>
        /\ Len(rank.removed) = Min2(rank.k, Len(G_in.nodes))
        /\ \A i, j \in 1..Len(rank.removed) :
              i < j => /\ rank.removed[i] # rank.removed[j]
                       /\ Degree(G_in, rank.removed[i]) >= Degree(G_in, rank.removed[j])

(***************************************************************************)
(* C14.  On the cycle of 5 nodes the adaptive degree-targeted attack with  *)
(* k = 5 returns all 5 nodes, each exactly once; after the first removal   *)
(* the normalized size of the largest component is 4/5 and its diameter is *)
(* 3; after 3 removals the normalized size is at most 2/5.                 *)
(***************************************************************************)
C14_CycleScenario ==
    (/\ G_in = Cycle5
     /\ strategy = "degree_targeted_attack"
     /\ apc \in {"ladder", "done"}) =>
        /\ (fi = 1 /\ current_removed = 0) =>
              /\ Len(all_nodes) = 5
              /\ Range(all_nodes) = 1..5
        /\ \A i \in 1..Len(removed_log) :
              /\ removed_log[i].removed = 1 =>
                    /\ results.relative_lcc_size[i] = [num |-> 4, den |-> 5]
                    /\ results.diameter[i] = [num |-> 3, den |-> 1]
              /\ removed_log[i].removed = 3 =>
                    5 * results.relative_lcc_size[i].num
                        <= 2 * results.relative_lcc_size[i].den

\* the attack on the cycle has returned, sampled after 1 and after 3 removals
C14_Witness ==
    /\ G_in = Cycle5
    /\ strategy = "degree_targeted_attack"
    /\ apc = "done"
    /\ Len(removed_log) = 4
    /\ removed_log[2].removed = 1
    /\ removed_log[3].removed = 3
    /\ Len(results.diameter) = 4

(***************************************************************************)
(* C15.  add_edges_by_effective_resistance(G, k=0) returns a graph with    *)
(* exactly the nodes and the edges of a largest connected component of G,  *)
(* and an empty list of added edges, whether the factorization succeeds or *)
(* the fallback runs, and for the graphs with fewer than 2 nodes too.      *)
(***************************************************************************)
\* the largest connected components of G, by exhaustive search
LargestComponents(g) ==
    LET comps == ComponentsOf(Range(g.nodes), g.edges)
    IN {C \in comps : \A D \in comps : Cardinality(D) <= Cardinality(C)}

\* `out` has the nodes and the edges of G_in inside C
IsComponentOfInput(out, C) ==
    /\ Range(out.nodes) = C
    /\ Len(out.nodes) = Cardinality(C)
    /\ out.edges = {e \in G_in.edges : e \subseteq C}

C15_ZeroEdgesReturnsComponent ==
    (epc = "done" /\ k = 0) =>
        /\ eret[1].added = <<>>
        /\ IF G_in.nodes = <<>>
           THEN heap[eret[1].graph] = EmptyGraph
           ELSE \E C \in LargestComponents(G_in) :
                   IsComponentOfInput(heap[eret[1].graph], C)

\* k = 0 with candidates sampled and scored on a disconnected graph
C15_Witness ==
    /\ epc = "done"
    /\ k = 0
    /\ ~fallback
    /\ scored # <<>>
    /\ Cardinality(lcc) < Len(G_in.nodes)
    /\ eret[1].added = <<>>

(***************************************************************************)
(* C16.  For the graphs with at least 2 nodes,                             *)
(* add_edges_by_effective_resistance restricts itself to one largest       *)
(* connected component before it factorizes: the node list handed to the   *)
(* factorization, the endpoints of the sampled candidates and the node set *)
(* of the returned graph are that component, and every added edge has both *)
(* endpoints inside it.                                                    *)
(***************************************************************************)
C16_WorksOnOneComponent ==
    (epc \notin {"idle", "start"} /\ Len(G_in.nodes) >= 2) =>
        /\ lcc \in LargestComponents(G_in)
        /\ Range(node_list) = lcc
        /\ Range(heap[H].nodes) = lcc
        /\ \A i \in 1..Len(candidates) : {candidates[i].u, candidates[i].v} \subseteq lcc
        /\ \A i \in 1..Len(cand) : {cand[i].u, cand[i].v} \subseteq lcc
        /\ epc = "done" =>
              /\ Range(heap[eret[1].graph].nodes) = lcc
              /\ \A i \in 1..Len(eret[1].added) :
                    {eret[1].added[i][1], eret[1].added[i][2]} \subseteq lcc

\* an edge was added inside the component of a disconnected graph
C16_Witness ==
    /\ epc = "done"
    /\ ~fallback
    /\ eret[1].added # <<>>
    /\ cand # <<>>
    /\ Cardinality(lcc) < Len(G_in.nodes)
    /\ Range(heap[eret[1].graph].nodes) = lcc

(***************************************************************************)
(* C17.  Every candidate of sample_candidate_edges is a pair of two        *)
(* distinct nodes that are not adjacent in the graph; no unordered pair is *)
(* listed twice; there are at most max_candidates entries; and when a cap  *)
(* is set, no entry has a known distance above it.                         *)
(***************************************************************************)
ValidCandidates(list) ==
    /\ Len(list) <= max_candidates
    /\ \A i \in 1..Len(list) :
          /\ list[i].u # list[i].v
          /\ {list[i].u, list[i].v} \subseteq Range(heap[H].nodes)
          /\ {list[i].u, list[i].v} \notin heap[H].edges
          /\ list[i].d = GeoDistKm(heap[H], list[i].u, list[i].v)
          /\ (max_distance_km # <<>> /\ list[i].d # <<>>) =>
                list[i].d[1] <= max_distance_km[1]
    /\ \A i, j \in 1..Len(list) :
          i < j => {list[i].u, list[i].v} # {list[j].u, list[j].v}

C17_CandidatesAreValid ==
    (epc \in {"sample", "score", "add"}) =>
        /\ ValidCandidates(candidates)
        /\ ValidCandidates(cand)

\* two candidates of known distance were returned under a cap, after tries that
\* were rejected
C17_Witness ==
    /\ epc = "score"
    /\ max_distance_km # <<>>
    /\ Len(cand) = 2
    /\ cand[1].d # <<>>
    /\ ValidCandidates(cand)

(***************************************************************************)
(* C18.  On the factorization path add_edges_by_effective_resistance adds  *)
(* exactly min(k, number of scored candidates) edges; they are the top of  *)
(* the ranking by effective resistance: no candidate left out has a        *)
(* strictly higher resistance than one that was added; and each entry of   *)
(* the added list is an edge of the returned graph that the input graph    *)
(* does not have.                                                          *)
(***************************************************************************)
\* the unordered pairs of the entries of the added list
AddedPairs == {{eret[1].added[i][1], eret[1].added[i][2]} : i \in 1..Len(eret[1].added)}

C18_TopKAdded ==
    (epc = "done" /\ ~fallback /\ Len(G_in.nodes) >= 2) =>
        /\ Len(eret[1].added) = Min2(k, Len(scored))
        /\ Cardinality(AddedPairs) = Len(eret[1].added)
        /\ \A e \in AddedPairs :
              /\ Cardinality(e) = 2
              /\ e \in heap[eret[1].graph].edges
              /\ e \notin G_in.edges
        /\ heap[eret[1].graph].edges = heap[H].edges \cup AddedPairs
        /\ \A i \in 1..Len(eret[1].added) : \A j \in 1..Len(cand) :
              {cand[j].u, cand[j].v} \notin AddedPairs =>
                  ~RGreater(EffectiveResistance(heap[H], cand[j].u, cand[j].v),
                            EffectiveResistance(heap[H], eret[1].added[i][1],
                                                eret[1].added[i][2]))

\* of two candidates of different resistance, one was added
C18_Witness ==
    /\ epc = "done"
    /\ ~fallback
    /\ k = 1
    /\ Len(scored) = 2
    /\ scored[1].reff # scored[2].reff
    /\ Len(eret[1].added) = 1
    /\ AddedPairs \subseteq heap[eret[1].graph].edges

(***************************************************************************)
(* C19.  Whenever a fallback is taken (the hub pairing in                  *)
(* add_edges_by_effective_resistance, the degree ranking when PageRank     *)
(* fails inside pagerank_targeted_attack), the output of the call is       *)
(* tagged so that the caller can tell: no run that fell back returns an    *)
(* output that a run that did not fall back also returns.                  *)
(***************************************************************************)
C19_FallbackIsTagged ==
    /\ (calls = 1 /\ epc = "done" /\ earlier[1].fallback # fallback) =>
          earlier[1].out # ErOutput
    /\ (calls = 1 /\ apc = "ranked" /\ earlier[1].fallback # rank.fallback) =>
          earlier[1].out # rank.removed

(***************************************************************************)
(* C20.  No exception escapes simulate_attack,                             *)
(* add_edges_by_effective_resistance, optimize_schneider_fast or           *)
(* reinforce_graph_schneider, for any graph and any non-negative           *)
(* parameter values (max_trials=0, patience=0, k=0, max_candidates=0 and   *)
(* an empty ladder included): no call ends by raising.                     *)
(***************************************************************************)
C20_NoExceptionEscapes == pc # "raised"

(***************************************************************************)
(* C21.  The metric and curve functions are total on degenerate graphs and *)
(* return zero or empty values: on the empty graph get_lcc is the empty    *)
(* set, lcc_size, diameter and components_count are 0 and                  *)
(* lcc_curve_static_dsu is all zeros; on any graph whose largest component *)
(* has fewer than 2 nodes diameter is 0.                                   *)
(***************************************************************************)
C21_DegenerateGraphsGiveZero ==
    /\ (spc = "done" /\ Len(sG[1].nodes) = 0) =>
          /\ GetLcc(sG[1]) = {}
          /\ stats[1].lcc_norm.num = 0
          /\ stats[1].diameter = 0
          /\ stats[1].components = 0
    /\ (spc = "done" /\ BruteLcc(sG[1], {}) < 2) => stats[1].diameter = 0
    /\ (cpc = "done" /\ Len(cG.nodes) = 0) =>
          /\ Len(cret) = Len(cFracs)
          /\ \A i \in 1..Len(cret) : cret[i].num = 0

\* the statistics of a graph of several nodes, all isolated
C21_Witness ==
    /\ spc = "done"
    /\ Len(sG[1].nodes) >= 2
    /\ sG[1].edges = {}
    /\ stats[1].diameter = 0
    /\ stats[1].components = Len(sG[1].nodes)

(***************************************************************************)
(* C22: whatever methods of AppState were called, the base graph is as it  *)
(* was loaded; the graph get_active_graph returns has the base nodes that  *)
(* are not removed and the base edges that touch no removed node and are   *)
(* not in the removed-edge set; the removed-edge set holds only pairs      *)
(* (u, v) with u <= v that are edges of the base graph; and remove_edge    *)
(* and restore_edge do the same for (a, b) and for (b, a).                 *)
(***************************************************************************)
\* the base graph minus the overlay, said without the code's operations
BaseMinusOverlay ==
    LET V == Range(G_in.nodes) \ removed_nodes
        E == {e \in G_in.edges :
                 /\ e \subseteq V
                 /\ \A tp \in removed_edges : {tp[1], tp[2]} # e}
    IN [nodes |-> Keep(G_in.nodes, V),
        edges |-> E,
        nattr |-> [x \in V |-> G_in.nattr[x]],
        eattr |-> [e \in E |-> G_in.eattr[e]]]

\* the pair (u, v) with u <= v of the base edge {a, b}; nothing for a non-edge
CanonicalOf(a, b) ==
    IF {a, b} \in G_in.edges
    THEN {<<Min2(a, b), Max2(a, b)>>}
    ELSE {}

C22_State ==
    /\ graph # 0 => heap[graph] = G_in
    /\ active # 0 => heap[active] = BaseMinusOverlay
    /\ \A tp \in removed_edges : tp[1] <= tp[2] /\ {tp[1], tp[2]} \in G_in.edges

\* the effect of an edge call depends on the set {a, b} only
C22_Step ==
    /\ (app_op'[1].op = "remove_edge") =>
          LET a == app_op'[1].args[1]
              b == app_op'[1].args[2]
          IN /\ removed_edges' = removed_edges \cup CanonicalOf(a, b)
             /\ app_ret' = <<{a, b} \in G_in.edges>>
    /\ (app_op'[1].op = "restore_edge") =>
          LET a == app_op'[1].args[1]
              b == app_op'[1].args[2]
          IN /\ removed_edges' = removed_edges \ CanonicalOf(a, b)
             /\ app_ret' = <<CanonicalOf(a, b) \cap removed_edges # {}>>

C22_OverlayOverBase == [](C22_State) /\ [][C22_Step]_vars

C22_Witness ==
    /\ active # 0
    /\ removed_nodes # {}
    /\ \E tp \in explicit : tp[1] \notin removed_nodes /\ tp[2] \notin removed_nodes
    /\ app_op[1].op = "get_active_graph"

(***************************************************************************)
(* C24.  Removing what is already removed is reported as a failure:        *)
(* remove_node of a node that is in the removed-node set, and remove_edge  *)
(* of an edge that is in the removed-edge set, return False (the endpoint  *)
(* answers 400 to a False) and leave both removed sets as they were.       *)
(***************************************************************************)
C24_Step ==
    /\ (/\ app_op'[1].op = "remove_node"
        /\ app_op'[1].args[1] \in removed_nodes) =>
          /\ app_ret' = <<FALSE>>
          /\ UNCHANGED <<removed_nodes, removed_edges>>
    /\ (/\ app_op'[1].op = "remove_edge"
        /\ SortedPair(app_op'[1].args[1], app_op'[1].args[2]) \in removed_edges) =>
          /\ app_ret' = <<FALSE>>
          /\ UNCHANGED <<removed_nodes, removed_edges>>

C24_RemovingTwiceFails == [][C24_Step]_vars

(***************************************************************************)
(* C28.  An edge that remove_edge removed stays in the removed-edge set    *)
(* through any calls of remove_node and restore_node, on its endpoints     *)
(* included, until restore_edge is called for it or reset is called; and   *)
(* remove_node(n) followed at once by restore_node(n) leaves the two       *)
(* removed sets exactly as they were before the remove_node (of a node     *)
(* that was not removed already).                                          *)
(***************************************************************************)
C28_Step ==
    (/\ app_op # <<>>
     /\ app_op[1].op = "remove_node"
     /\ app_ret = <<TRUE>>
     /\ app_op[1].args[1] \notin app_op[1].before[1].removed_nodes
     /\ app_op'[1].op = "restore_node"
     /\ app_op'[1].args = app_op[1].args) =>
        Overlay' = app_op[1].before[1]

C28_ExplicitRemovalsPersist == [](explicit \subseteq removed_edges) /\ [][C28_Step]_vars

(***************************************************************************)
(* C23.  An invalid strategy name never reaches the core: every call an    *)
(* endpoint makes into simulate_attack passes one of the names             *)
(* simulate_attack tests for, so no call runs with any other name.         *)
(***************************************************************************)
\* the names the if/elif chain of simulate_attack tests for
RecognizedNames == {"random_attack"} \cup RankingFunctions

C23_OnlyRecognizedNamesPassed ==
    /\ \A i \in 1..Len(passed) : passed[i] \in RecognizedNames
    /\ apc # "idle" => strategy \in RecognizedNames

(***************************************************************************)
(* C25.  The resistances effective_resistance computes from the one        *)
(* factorization of the grounded Laplacian are symmetric, R(u, v) =        *)
(* R(v, u) for every pair of nodes of the component, the ground node       *)
(* included, and strictly positive for two distinct nodes.                 *)
(***************************************************************************)
C25_ResistanceSymmetricPositive ==
    (epc = "reff" /\ scored # <<>>) =>
        LET Ruv == scored[1].reff
            Rvu == EffectiveResistance(heap[H], scored[1].v, scored[1].u)
        IN /\ Ruv.den > 0
           /\ Rvu.den > 0
           /\ Ruv.num * Rvu.den = Rvu.num * Ruv.den
           /\ scored[1].u # scored[1].v => Ruv.num > 0

\* a pair that has the ground node as its first end and a resistance above 1
C25_Witness ==
    /\ epc = "reff"
    /\ scored # <<>>
    /\ scored[1].u = node_list[Len(node_list)]
    /\ scored[1].reff.num > scored[1].reff.den

(***************************************************************************)
(* C26.  The sampling loop of sample_candidate_edges always terminates:    *)
(* it makes at most 50 * max_candidates attempts, and once sampling has    *)
(* started it returns, with the candidates found so far, also when the     *)
(* graph has no valid non-edge.                                            *)
(***************************************************************************)
C26_ReturnsWhatWasFound ==
    (epc = "sample" /\ epc' = "score") => cand' = candidates

C26_SamplingTerminates ==
    /\ [](epc = "sample" => tries <= max_candidates * MaxTriesFactor)
    /\ [][C26_ReturnsWhatWasFound]_vars
    /\ (epc = "sample") ~> (epc = "score")

\* every attempt was made and none found a candidate
C26_Witness ==
    /\ epc = "sample"
    /\ max_candidates = SampleMaxCandidates
    /\ tries = max_candidates * MaxTriesFactor
    /\ candidates = <<>>

(***************************************************************************)
(* C27.  lcc_curve_static_dsu samples its curve at the removal count       *)
(* floor(f * n), the count simulate_attack uses (int(fraction * N0)): for  *)
(* every fraction f of the ladder the returned sample is the size of the   *)
(* largest component once the first floor(f * n) nodes of the order are    *)
(* removed, over n, which is what simulate_attack records for that order.  *)
(***************************************************************************)
C27_SampledAtFloor ==
    LET n == Len(cG.nodes)
    IN (cpc = "done" /\ n > 0) =>
          \A i \in 1..Len(cFracs) :
             cret[i] = [num |-> BruteLcc(cG, FirstK(cOrder,
                                     Min2(TargetRemoved(cFracs[i], n), n))),
                        den |-> n]

(***************************************************************************)
(* C29.  optimize_schneider_fast changes only which pairs of nodes are     *)
(* connected: every edge of the returned graph that is also an edge of     *)
(* the input graph carries the attributes it has in the input graph        *)
(* (distance_km for one), whether or not a trial sampled it.               *)
(***************************************************************************)
C29_KeptEdgesKeepAttributes ==
    (pc = "done") =>
        \A e \in heap[Gr].edges \cap G_in.edges : heap[Gr].eattr[e] = G_in.eattr[e]

(***************************************************************************)
(* C30.  At every trial boundary of optimize_schneider_fast, and at the    *)
(* return, R_best is the robustness index of the working graph under the   *)
(* static degree order computed at the start, and that order is still what *)
(* _static_order_by_degree gives on the working graph; R_best never        *)
(* decreases; and the reported R_best_static is the index of the returned  *)
(* graph and is at least the index of the input graph.                     *)
(***************************************************************************)
\* equality of two fractions
REqual(a, b) == a.num * b.den = b.num * a.den

C30_AtBoundary ==
    /\ (pc \in {"loop", "info", "done"}) =>
          /\ REqual(R_best, RobustnessRStaticFast(heap[Gr], fracs, order))
          /\ order = StaticOrderByDegree(heap[Gr])
    /\ (pc = "done") =>
          /\ REqual(info[1].R_best_static,
                    RobustnessRStaticFast(heap[Gr], fracs, StaticOrderByDegree(heap[Gr])))
          /\ ~RGreater(RobustnessRStaticFast(G_in, fracs, StaticOrderByDegree(G_in)),
                       info[1].R_best_static)

C30_NeverDecreases == (pc \notin {"idle", "start", "first"}) => ~RGreater(R_best, R_best')

C30_BestIsCurrentAndMonotone == [](C30_AtBoundary) /\ [][C30_NeverDecreases]_vars

\* a return after an accepted swap that raised the index above the input's
C30_Witness ==
    /\ pc = "done"
    /\ accepted >= 1
    /\ RGreater(info[1].R_best_static,
                RobustnessRStaticFast(G_in, fracs, StaticOrderByDegree(G_in)))

====
